---- MODULE Spec2Model ----
(***************************************************************************)
(* Vehicle tracking simulator (src/app/page.tsx, src/app/welcome/page.tsx, *)
(* the useWebSocket hook in src/unnamed/part_002).                         *)
(*                                                                         *)
(* Spec      one browser session of the simulator page, of either role:    *)
(*           the React state of VehicleSimulator, the tick scheduler with  *)
(*           the values its closure captured, the wall clock, and the      *)
(*           messages the session publishes and receives.                  *)
(* SpecRole  several browser sessions logging in through the welcome page. *)
(*                                                                         *)
(* Units.  Time is in milliseconds (Date.now()).  Coordinates are points   *)
(* of a local grid in metres and calculateDistance is the grid distance in *)
(* metres (the source works in degrees and kilometres); speed is in km/h   *)
(* and initialDelay in seconds as in the source.  playbackSpeed2 is twice  *)
(* the playback multiplier, so that 0.5x is the integer 1.                 *)
(***************************************************************************)
EXTENDS Integers, Sequences, FiniteSets, TLC

(***************************************************************************)
(* Bounds of the model.                                                    *)
(***************************************************************************)
\* how many clock steps the wall clock takes
MaxClockSteps == 3
\* browser sessions of SpecRole
NumSessions == 3
\* timeouts of onConnect pending at a time in SpecChannel
MaxRequestTimeouts == 2
\* notifications in the list of the page in SpecInbox
MaxNotifications == 2
\* calls of placeVehicle that await their vehicle at a time in SpecPlace
MaxPendingFetches == 2

\* one step of the wall clock, ms
ClockStepMs == 5 * 100
\* Date.now() at page load: a positive number
StartOfTime == 2 * ClockStepMs
EndOfTime == StartOfTime + MaxClockSteps * ClockStepMs

(***************************************************************************)
(* JS values.  A number is the record [n, d] of its reduced fraction       *)
(* (d = 1 for an integer); NaN and undefined are records of their own, so  *)
(* that any two values can be compared.  A string field that is undefined  *)
(* holds the string "undefined".                                           *)
(***************************************************************************)
Undefined == [undef |-> TRUE]

NaN == [nan |-> TRUE]

UndefStr == "undefined"

Abs(x) == IF x < 0 THEN -x ELSE x

Max(a, b) == IF a >= b THEN a ELSE b

RECURSIVE Gcd(_, _)
Gcd(a, b) == IF b = 0 THEN a ELSE Gcd(b, a % b)

\* the number n/d (d > 0)
Frac(n, d) ==
    LET g == Gcd(Abs(n), d)
    IN  IF n = 0 THEN [n |-> 0, d |-> 1] ELSE [n |-> n \div g, d |-> d \div g]

Num(i) == [n |-> i, d |-> 1]

IsNum(x) == DOMAIN x = {"n", "d"}

NumLeq(x, y) == x.n * y.d <= y.n * x.d

NumLt(x, y) == x.n * y.d < y.n * x.d

NumMul(x, y) == Frac(x.n * y.n, x.d * y.d)

NumAdd(x, y) == Frac(x.n * y.d + y.n * x.d, x.d * y.d)

\* Math.ceil(n / d) for d > 0
CeilDiv(n, d) == -((-n) \div d)

\* a number-or-undefined value that `if (x)`, `x || y`, `x && y` take as true
Truthy(x) == IsNum(x) /\ x.n # 0

\* x || y on number-or-undefined values
JsOr(x, y) == IF Truthy(x) THEN x ELSE y

\* a string-or-undefined value that JS takes as true
TruthyStr(s) == s \notin {"", UndefStr}

\* x || y on string-or-undefined values
JsOrStr(x, y) == IF TruthyStr(x) THEN x ELSE y

(***************************************************************************)
(* Waypoints, distances and routes.                                        *)
(***************************************************************************)
\* The waypoint list of the page, on the grid.  All coordinates are
\* multiples of 5, so the interpolated path points are grid points, and none
\* is zero.  Waypoints 2 and 3 share their coordinates, as Lok Virsa Museum
\* and Shakarparian do in the source.
ISLAMABAD_WAYPOINTS ==
    << [id |-> 1, lat |-> 100, lng |-> 100],
       [id |-> 2, lat |-> 100, lng |-> 110],
       [id |-> 3, lat |-> 100, lng |-> 110] >>

WaypointIds == {ISLAMABAD_WAYPOINTS[i].id : i \in DOMAIN ISLAMABAD_WAYPOINTS}

WaypointById(id) ==
    ISLAMABAD_WAYPOINTS[CHOOSE i \in DOMAIN ISLAMABAD_WAYPOINTS :
                            ISLAMABAD_WAYPOINTS[i].id = id]

\* currentWaypoint / targetWaypoint of a vehicle that has none
NoWaypoint == -1

\* the greatest r in lo..hi with r * r <= n, by bisection
RECURSIVE SqrtBetween(_, _, _)
SqrtBetween(n, lo, hi) ==
    IF lo >= hi THEN lo
    ELSE LET mid == (lo + hi + 1) \div 2
         IN  IF mid * mid <= n THEN SqrtBetween(n, mid, hi) ELSE SqrtBetween(n, lo, mid - 1)

\* floor of the square root
ISqrt(n) == SqrtBetween(n, 0, IF n < 40000 THEN n ELSE 40000)

\* distance between two points, in metres
calculateDistance(lat1, lng1, lat2, lng2) ==
    ISqrt((lat2 - lat1) * (lat2 - lat1) + (lng2 - lng1) * (lng2 - lng1))

\* initial bearing in degrees, [0, 360): exact for the eight compass
\* directions; atan2(0, 0) = 0 for two equal points
calculateBearing(lat1, lng1, lat2, lng2) ==
    LET dLat == lat2 - lat1
        dLng == lng2 - lng1
    IN  CASE dLat >= 0 /\ dLng = 0 -> 0
          [] dLat > 0  /\ dLng > 0 -> 45
          [] dLat = 0  /\ dLng > 0 -> 90
          [] dLat < 0  /\ dLng > 0 -> 135
          [] dLat < 0  /\ dLng = 0 -> 180
          [] dLat < 0  /\ dLng < 0 -> 225
          [] dLat = 0  /\ dLng < 0 -> 270
          [] dLat > 0  /\ dLng < 0 -> 315

\* the candidates left in the order of the waypoints state
SortByDistanceFromMutant(source, seq) == seq

\* candidateWaypoints.sort((a, b) => distA - distB): the stable sort by the
\* distance from source (the first least element, then the rest sorted)
RECURSIVE SortByDistanceFrom(_, _)
SortByDistanceFrom(source, seq) ==
    LET Key(w) == calculateDistance(source.lat, source.lng, w.lat, w.lng)
    IN  IF seq = <<>> THEN <<>>
        ELSE LET i == CHOOSE k \in DOMAIN seq :
                          /\ \A j \in DOMAIN seq : Key(seq[k]) <= Key(seq[j])
                          /\ \A j \in 1..(k - 1) : Key(seq[j]) > Key(seq[k])
                 rest == [j \in 1..(Len(seq) - 1) |->
                             IF j < i THEN seq[j] ELSE seq[j + 1]]
             IN  <<seq[i]>> \o SortByDistanceFrom(source, rest)

maxIntermediatePoints == 2

\* distance under which a route is direct (5 km)
DirectRouteMetres == 5 * 1000

findPathWaypoints(source, destination, availableWaypoints) ==
    LET directDistance ==
            calculateDistance(source.lat, source.lng, destination.lat, destination.lng)
        FromSource(w) == calculateDistance(source.lat, source.lng, w.lat, w.lng)
        ToDestination(w) == calculateDistance(w.lat, w.lng, destination.lat, destination.lng)
        \* totalDistance < directDistance * 1.3
        OnTheWay(w) == 10 * (FromSource(w) + ToDestination(w)) < 13 * directDistance
        candidateWaypoints == SelectSeq(availableWaypoints, OnTheWay)
        sorted == SortByDistanceFrom(source, candidateWaypoints)
    IN  IF directDistance < DirectRouteMetres THEN <<>>
        ELSE SubSeq(sorted, 1, IF Len(sorted) < maxIntermediatePoints
                               THEN Len(sorted) ELSE maxIntermediatePoints)

\* an anchor pushed without its waypoint mark
AnchorPointMutant(w) == [lat |-> w.lat, lng |-> w.lng, isWaypoint |-> FALSE, waypointId |-> NoWaypoint]

AnchorPoint(w) == [lat |-> w.lat, lng |-> w.lng, isWaypoint |-> TRUE, waypointId |-> w.id]

\* number of sub-segments between two anchors
steps == 5

\* calculateOptimalPath in a render whose waypoints state is the given list
OptimalPath(waypoints, sourceWaypoint, destinationWaypoint) ==
    LET NotEndpoint(w) == w.id # sourceWaypoint.id /\ w.id # destinationWaypoint.id
        nearbyWaypoints == SelectSeq(waypoints, NotEndpoint)
        pathWaypoints == findPathWaypoints(sourceWaypoint, destinationWaypoint, nearbyWaypoints)
        intermediatePoints ==
            <<AnchorPoint(sourceWaypoint)>>
            \o [k \in 1..Len(pathWaypoints) |-> AnchorPoint(pathWaypoints[k])]
            \o <<AnchorPoint(destinationWaypoint)>>
        \* point j (0 .. steps-1) after anchor i
        Smooth(i, j) ==
            LET current == intermediatePoints[i]
                next == intermediatePoints[i + 1]
            IN  IF j = 0 THEN current
                ELSE [lat |-> current.lat + ((next.lat - current.lat) * j) \div steps,
                      lng |-> current.lng + ((next.lng - current.lng) * j) \div steps,
                      isWaypoint |-> FALSE, waypointId |-> NoWaypoint]
        n == Len(intermediatePoints)
    IN  [k \in 1..((n - 1) * steps) |-> Smooth(((k - 1) \div steps) + 1, (k - 1) % steps)]
        \o <<intermediatePoints[n]>>

\* the waypoints state holds ISLAMABAD_WAYPOINTS
calculateOptimalPath(sourceWaypoint, destinationWaypoint) ==
    OptimalPath(ISLAMABAD_WAYPOINTS, sourceWaypoint, destinationWaypoint)

RECURSIVE PathDistanceUpTo(_, _)
PathDistanceUpTo(path, k) ==
    IF k <= 1 THEN 0
    ELSE PathDistanceUpTo(path, k - 1)
         + calculateDistance(path[k - 1].lat, path[k - 1].lng, path[k].lat, path[k].lng)

\* total distance of a path, in metres
calculatePathDistance(path) == PathDistanceUpTo(path, Len(path))

\* position at progress (a number in [0, 1], or NaN): [lat, lng, heading]
getPositionAlongPath(path, progress) ==
    LET last == path[Len(path)]
        endPoint == [lat |-> Num(last.lat), lng |-> Num(last.lng), heading |-> Undefined]
        totalDistance == calculatePathDistance(path)
        SegmentDistance(i) ==
            calculateDistance(path[i].lat, path[i].lng, path[i + 1].lat, path[i + 1].lng)
        targetDistance == NumMul(Num(totalDistance), progress)
        \* the segments whose end is at or beyond the target distance
        Reached(i) == NumLeq(targetDistance, Num(PathDistanceUpTo(path, i + 1)))
        hits == {i \in 1..(Len(path) - 1) : Reached(i)}
        i == CHOOSE k \in hits : \A j \in hits : k <= j
        accumulated == PathDistanceUpTo(path, i)
        \* (targetDistance - accumulatedDistance) / segmentDistances[i]; 0/0 is NaN
        segmentProgress ==
            LET diff == NumAdd(targetDistance, Num(-accumulated))
            IN  IF SegmentDistance(i) = 0 THEN NaN
                ELSE Frac(diff.n, diff.d * SegmentDistance(i))
        Along(a, b) ==
            IF segmentProgress = NaN THEN NaN
            ELSE NumAdd(Num(a), NumMul(Num(b - a), segmentProgress))
    IN  IF progress = NaN THEN
            \* no comparison with NaN is true: the loop finds no segment
            endPoint
        ELSE IF NumLeq(progress, Num(0)) THEN
            [lat |-> Num(path[1].lat), lng |-> Num(path[1].lng), heading |-> Undefined]
        ELSE IF NumLeq(Num(1), progress) THEN endPoint
        ELSE IF hits = {} THEN endPoint
        ELSE [lat |-> Along(path[i].lat, path[i + 1].lat),
              lng |-> Along(path[i].lng, path[i + 1].lng),
              heading |-> Num(calculateBearing(path[i].lat, path[i].lng,
                                               path[i + 1].lat, path[i + 1].lng))]

(***************************************************************************)
(* Vehicles.                                                               *)
(***************************************************************************)
VehicleIds == {1, 2}

\* speeds (km/h) and initial delays (s) an admin enters
Speeds == {18}

InitialDelays == {0, 1}

\* the source and destination an admin selects (handleWaypointSelect refuses
\* the source as destination): a route of 10 m
Routes == {<<1, 2>>}

\* twice the multipliers an admin picks among [0.5, 1, 1.5, 2, 3, 5]
PlaybackSpeeds2 == {1, 2, 10}

\* Math.random() * 50 + 50
FuelLevels == {75}

\* GET /api/simulator/get-vehicle: the vehicle of the backend, placed nowhere
fetchVehicle(vehicleId, selectedVehicleSpeed, selectedInitialDelay) ==
    [id |-> vehicleId,
     licensePlate |-> "LP-" \o ToString(vehicleId),
     model |-> "Model-" \o ToString(vehicleId),
     brand |-> "Brand-" \o ToString(vehicleId),
     type |-> "Type-" \o ToString(vehicleId),
     currentWaypoint |-> NoWaypoint,
     targetWaypoint |-> NoWaypoint,
     speed |-> selectedVehicleSpeed,
     initialDelay |-> selectedInitialDelay,
     status |-> "idle",
     simulationData |-> Undefined,
     plannedPath |-> <<>>]

HasSim(v) == v.simulationData # Undefined

\* the vehicle as placeVehicle appends it
PlacedVehicle(vehicleId, source, destination, speed, initialDelay) ==
    [fetchVehicle(vehicleId, speed, initialDelay) EXCEPT
        !.currentWaypoint = source,
        !.targetWaypoint = destination,
        !.plannedPath = calculateOptimalPath(WaypointById(source), WaypointById(destination))]

\* the statistics of the dashboard
StatsOf(roster) ==
    [totalVehicles |-> Len(roster),
     activeVehicles |-> Cardinality({i \in DOMAIN roster : roster[i].status = "moving"}),
     completedJourneys |-> Cardinality({i \in DOMAIN roster : roster[i].status = "stopped"})]

NoStats == [totalVehicles |-> 0, activeVehicles |-> 0, completedJourneys |-> 0]

\* a delay of 0 taken for a delay
HasDelayMutant(vehicle) == vehicle.initialDelay >= 0

\* const hasDelay = vehicle.initialDelay > 0
HasDelay(vehicle) == vehicle.initialDelay > 0

\* startSimulation: the simulation data a vehicle starts a run with
InitializedVehicle(vehicle, currentTime, fuelLevel) ==
    LET hasDelay == HasDelay(vehicle)
    IN  IF Len(vehicle.plannedPath) = 0 THEN vehicle
        ELSE [vehicle EXCEPT
                !.status = IF hasDelay THEN "idle" ELSE "moving",
                !.simulationData =
                    [avgSpeed |-> vehicle.speed,
                     latitude |-> Num(vehicle.plannedPath[1].lat),
                     longitude |-> Num(vehicle.plannedPath[1].lng),
                     heading |-> Num(0),
                     status |-> IF hasDelay THEN "delayed" ELSE "moving",
                     timestamp |-> Num(currentTime),
                     fuelLevel |-> fuelLevel,
                     engineStatus |-> TRUE,
                     distanceTravelled |-> Num(0),
                     startTime |-> IF hasDelay
                                   THEN Num(currentTime + vehicle.initialDelay * 1000)
                                   ELSE Num(currentTime),
                     currentLat |-> Num(vehicle.plannedPath[1].lat),
                     currentLng |-> Num(vehicle.plannedPath[1].lng),
                     progress |-> Num(0),
                     pathIndex |-> Num(0),
                     delayStartTime |-> IF hasDelay THEN Num(currentTime) ELSE Undefined,
                     isDelayed |-> hasDelay]]

\* a division by a journey duration of 0 taken as undefined whatever the
\* elapsed time
OverallProgressMutant(elapsedTime, totalDistance, speed, speed2) ==
    IF totalDistance = 0 THEN NaN
    ELSE LET p == Frac(elapsedTime * speed * speed2, totalDistance * 7200)
         IN  IF NumLeq(Num(1), p) THEN Num(1) ELSE p

\* Math.min(elapsedTime / journeyDuration, 1), where journeyDuration is
\* ((totalDistance / (speed / 3600)) * 1000) / playbackSpeed milliseconds:
\* totalDistance * 7200 / (speed * playbackSpeed2) with metres and doubled
\* multiplier.  x / 0 is Infinity for x > 0 and NaN for x = 0.
OverallProgress(elapsedTime, totalDistance, speed, speed2) ==
    IF totalDistance = 0
    THEN IF elapsedTime * speed * speed2 = 0 THEN NaN ELSE Num(1)
    ELSE LET p == Frac(elapsedTime * speed * speed2, totalDistance * 7200)
         IN  IF NumLeq(Num(1), p) THEN Num(1) ELSE p

\* the remaining seconds rounded down
DelayedLabelMutant(remainingMs) == "delayed (" \o ToString(remainingMs \div 1000) \o "s)"

\* `delayed (${Math.ceil((delayDuration - delayElapsed) / 1000)}s)`
DelayedLabel(remainingMs) == "delayed (" \o ToString(CeilDiv(remainingMs, 1000)) \o "s)"

InDelay(vehicle) ==
    vehicle.simulationData.isDelayed /\ Truthy(vehicle.simulationData.delayStartTime)

\* the status left out of the test
IsMovingMutant(vehicle) == Truthy(vehicle.simulationData.startTime)

\* vehicle.status === "moving" && vehicle.simulationData.startTime
IsMoving(vehicle) == vehicle.status = "moving" /\ Truthy(vehicle.simulationData.startTime)

\* overallProgress > 1
ReachedEndMutant(overallProgress) == overallProgress # NaN /\ NumLt(Num(1), overallProgress)

\* overallProgress >= 1, false of NaN
ReachedEnd(overallProgress) == overallProgress # NaN /\ NumLeq(Num(1), overallProgress)

\* one vehicle in one tick of the loop that startSimulation creates
TickVehicle(vehicle, currentTime, speed2) ==
    LET sim == vehicle.simulationData
        delayElapsed == currentTime - sim.delayStartTime.n
        delayDuration == vehicle.initialDelay * 1000
        elapsedTime == currentTime - sim.startTime.n
        totalDistance == calculatePathDistance(vehicle.plannedPath)
        overallProgress == OverallProgress(elapsedTime, totalDistance, vehicle.speed, speed2)
        finalPoint == vehicle.plannedPath[Len(vehicle.plannedPath)]
        pathPosition == getPositionAlongPath(vehicle.plannedPath, overallProgress)
    IN  IF ~HasSim(vehicle) THEN vehicle
        ELSE IF InDelay(vehicle) THEN
            IF delayElapsed < delayDuration
            THEN [vehicle EXCEPT
                    !.status = "idle",
                    !.simulationData.status = DelayedLabel(delayDuration - delayElapsed)]
            ELSE [vehicle EXCEPT
                    !.status = "moving",
                    !.simulationData.isDelayed = FALSE,
                    !.simulationData.status = "moving",
                    !.simulationData.startTime = Num(currentTime)]
        ELSE IF IsMoving(vehicle) THEN
            IF ReachedEnd(overallProgress)
            THEN [vehicle EXCEPT
                    !.currentWaypoint = vehicle.targetWaypoint,
                    !.status = "stopped",
                    !.simulationData.avgSpeed = vehicle.speed,
                    !.simulationData.latitude = Num(finalPoint.lat),
                    !.simulationData.longitude = Num(finalPoint.lng),
                    !.simulationData.status = "completed",
                    !.simulationData.timestamp = Num(currentTime),
                    !.simulationData.distanceTravelled = Num(totalDistance),
                    !.simulationData.currentLat = Num(finalPoint.lat),
                    !.simulationData.currentLng = Num(finalPoint.lng),
                    !.simulationData.progress = Num(1)]
            ELSE [vehicle EXCEPT
                    !.simulationData.currentLat = pathPosition.lat,
                    !.simulationData.currentLng = pathPosition.lng,
                    !.simulationData.heading = JsOr(pathPosition.heading, Num(0)),
                    !.simulationData.progress = overallProgress,
                    !.simulationData.distanceTravelled =
                        IF overallProgress = NaN THEN NaN
                        ELSE NumMul(Num(totalDistance), overallProgress)]
        ELSE vehicle

\* one vehicle in one tick of the loop that restartSimulationWithNewSpeed creates
RestartTickVehicle(vehicle, currentTime, speed2) ==
    LET sim == vehicle.simulationData
        delayElapsed == currentTime - sim.delayStartTime.n
        delayDuration == vehicle.initialDelay * 1000
        elapsedTime == currentTime - sim.startTime.n
        totalDistance == calculatePathDistance(vehicle.plannedPath)
        overallProgress == OverallProgress(elapsedTime, totalDistance, vehicle.speed, speed2)
        finalPoint == vehicle.plannedPath[Len(vehicle.plannedPath)]
        pathPosition == getPositionAlongPath(vehicle.plannedPath, overallProgress)
    IN  IF ~HasSim(vehicle) THEN vehicle
        ELSE IF InDelay(vehicle) THEN
            IF delayElapsed < delayDuration
            THEN [vehicle EXCEPT
                    !.status = "idle",
                    !.simulationData.status = DelayedLabel(delayDuration - delayElapsed)]
            ELSE [vehicle EXCEPT
                    !.status = "moving",
                    !.simulationData.isDelayed = FALSE,
                    !.simulationData.status = "moving",
                    !.simulationData.startTime = Num(currentTime)]
        ELSE IF IsMoving(vehicle) THEN
            IF ReachedEnd(overallProgress)
            THEN [vehicle EXCEPT
                    !.currentWaypoint = vehicle.targetWaypoint,
                    !.status = "stopped",
                    !.simulationData.avgSpeed = vehicle.speed,
                    !.simulationData.latitude = Num(finalPoint.lat),
                    !.simulationData.longitude = Num(finalPoint.lng),
                    !.simulationData.status = "completed",
                    !.simulationData.timestamp = Num(currentTime),
                    !.simulationData.distanceTravelled = Num(totalDistance),
                    !.simulationData.currentLat = Num(finalPoint.lat),
                    !.simulationData.currentLng = Num(finalPoint.lng),
                    !.simulationData.progress = Num(1)]
            ELSE [vehicle EXCEPT
                    !.simulationData.currentLat = pathPosition.lat,
                    !.simulationData.currentLng = pathPosition.lng,
                    !.simulationData.heading = JsOr(pathPosition.heading, Num(0)),
                    !.simulationData.progress = overallProgress,
                    !.simulationData.distanceTravelled =
                        IF overallProgress = NaN THEN NaN
                        ELSE NumMul(Num(totalDistance), overallProgress)]
        ELSE vehicle

(***************************************************************************)
(* State.                                                                  *)
(***************************************************************************)
VARIABLES
    \* React state of VehicleSimulator
    userType,               \* "admin" | "user", set once by checkAuth
    vehicles,               \* the roster
    isSimulationRunning,
    isPaused,
    playbackSpeed2,         \* twice playbackSpeed
    simulationStats,
    isReceivingSimulation,
    \* simulationInterval.current and the interval it names: the loop that
    \* runs in it, whether it is live, and what its closure captured
    simulationInterval,
    \* Date.now()
    now,
    \* the channel: isConnected of useWebSocket, and the value of
    \* isReceivingSimulation that the subscription's handler captured
    wsConnected,
    handlerReceiving,
    \* what the last operation published, in order
    outbox,
    \* the last operation (a user action, a tick, a handled message, a step
    \* of the clock), and which code wrote the roster in it
    lastOp,
    \* SpecRole: per browser session, the localStorage entry written by
    \* handleLogin and the userType state set by checkAuth
    storedUserType,
    sessionUserType,
    \* SpecChannel: the state of useWebSocket (its React state, clientRef,
    \* reconnectTimeoutRef) and what its last operation did
    channel,
    \* SpecInbox: the notification list of the page
    notifications,
    \* SpecPlace: the placement form of the page (the vehicle id typed, the
    \* waypoints selected, speed and delay), the vehicle shown at each
    \* waypoint, and the calls of placeVehicle that await their vehicle
    placement,
    \* SpecRoute: the waypoints of the page, the route asked for and the
    \* results of calculateOptimalPath and getPositionAlongPath for it
    routePlan,
    \* SpecBroadcast: the session of a viewer that is sent what the producer
    \* publishes
    viewer

sessionVars ==
    <<userType, vehicles, isSimulationRunning, isPaused, playbackSpeed2, simulationStats,
      isReceivingSimulation, simulationInterval, now, wsConnected, handlerReceiving,
      outbox, lastOp>>

roleVars == <<storedUserType, sessionUserType>>

vars == <<sessionVars, roleVars, channel, notifications, placement, routePlan, viewer>>

(***************************************************************************)
(* useWebSocket: the values of the channel.                                *)
(***************************************************************************)
maxReconnectAttempts == 10

baseReconnectDelay == 1000

Min(a, b) == IF a <= b THEN a ELSE b

RECURSIVE Pow2(_)
Pow2(n) == IF n = 0 THEN 1 ELSE 2 * Pow2(n - 1)

\* Math.min(baseReconnectDelay * Math.pow(2, reconnectAttempts), 30000)
ReconnectDelay(attempts) == Min(baseReconnectDelay * Pow2(attempts), 30 * 1000)

\* the topics onConnect subscribes to
Topics == {"/topic/notifications", "/topic/simulation", "/topic/live-locations"}

\* the delay of the request of the current state, ms
RequestStateDelay == 500

\* clientRef.current is null
NoClient == [state |-> "none", attempts |-> 0, subscriptions |-> {}]

\* reconnectTimeoutRef.current is null
NoTimeout == [pending |-> FALSE, delay |-> 0, attempts |-> 0]

\* no client whose socket failed has its close event to come
NoFailing == [pending |-> FALSE, attempts |-> 0]

\* the hook before its first effect.  A client carries the reconnectAttempts
\* that its callbacks captured, a timeout the one of the createConnection
\* it will call; failing is the client that told of the error of its socket
\* and was deactivated, the close event of the socket still to come;
\* requestTimeouts are the timeouts set by onConnect that have not expired,
\* in the order they were set, each with client.connected of its client;
\* created, tornDown and sent tell what the last operation did: the clients
\* it created, whether it deactivated one that was connecting or connected,
\* and the frames it sent
NoChannel ==
    [enabled |-> FALSE, isConnected |-> FALSE, connectionError |-> "null",
     reconnectAttempts |-> 0, client |-> NoClient, reconnectTimeout |-> NoTimeout,
     failing |-> NoFailing, requestTimeouts |-> <<>>,
     op |-> "init", created |-> 0, tornDown |-> FALSE, sent |-> <<>>]

\* the placement form as the page mounts it: no id typed, no waypoint
\* selected (null is 0), no vehicle at a waypoint, no call pending
\* no route asked for
\* a viewer that has connected and handled no message: its roster, flags
\* and multiplier, the isReceivingSimulation its subscription handler sees,
\* and the publication it was sent last
NoViewer ==
    [vehicles |-> <<>>, isSimulationRunning |-> FALSE, isPaused |-> FALSE,
     playbackSpeed2 |-> 2, isReceivingSimulation |-> FALSE, handlerReceiving |-> FALSE,
     seen |-> <<>>]

NoRoute ==
    [waypoints |-> <<>>, source |-> 0, destination |-> 0, pathWaypoints |-> <<>>,
     smoothPath |-> <<>>, progress |-> <<>>, positions |-> <<>>]

NoPlacement ==
    [vehicleIdInput |-> 0,
     selectedSourceWaypoint |-> 0,
     selectedDestinationWaypoint |-> 0,
     selectionMode |-> "source",
     selectedVehicleSpeed |-> 50,
     selectedInitialDelay |-> 0,
     waypointVehicle |-> [w \in WaypointIds |-> 0],
     fetches |-> <<>>]

Sessions == 1..NumSessions

\* simulationInterval.current is null
\* orphans counts the intervals that run on while simulationInterval.current
\* names another one
NoInterval ==
    [ref |-> FALSE, loop |-> "none", live |-> FALSE, speed2 |-> 0, ws |-> FALSE, due |-> 0,
     orphans |-> 0]

\* setInterval(..., Math.max(50, 200 / playbackSpeed)): the period in whole ms
IntervalMs(speed2) == Max(50, 400 \div speed2)

\* the intervals that run on once simulationInterval.current is assigned
Orphaned(interval) == interval.orphans + (IF interval.live THEN 1 ELSE 0)

\* simulationInterval.current = setInterval(...), whatever the ref named
\* before
NewInterval(previous, loop, speed2, ws, currentTime) ==
    [ref |-> TRUE, loop |-> loop, live |-> TRUE, speed2 |-> speed2, ws |-> ws,
     due |-> currentTime + IntervalMs(speed2), orphans |-> Orphaned(previous)]

\* the interval left running
ClearedMutant(interval) == interval

\* clearInterval(simulationInterval.current), the ref keeping its value: the
\* id of an interval that runs no more
Cleared(interval) ==
    [NoInterval EXCEPT !.ref = interval.ref, !.orphans = interval.orphans]

\* the cleared interval, and simulationInterval.current = null
ClearedAndNull(interval) == [Cleared(interval) EXCEPT !.ref = FALSE]

\* a step: the operation, which code wrote the roster in it, and the type of
\* the message it handled
Op(name, writer) == [op |-> name, writer |-> writer, type |-> "none"]

Init ==
    /\ userType \in {"admin", "user"}
    /\ vehicles = <<>>
    /\ isSimulationRunning = FALSE
    /\ isPaused = FALSE
    /\ playbackSpeed2 = 2
    /\ simulationStats = NoStats
    /\ isReceivingSimulation = FALSE
    /\ simulationInterval = NoInterval
    /\ now = StartOfTime
    /\ wsConnected = FALSE
    /\ handlerReceiving = FALSE
    /\ outbox = <<>>
    /\ lastOp = Op("init", "none")
    /\ storedUserType = [s \in Sessions |-> "none"]
    /\ sessionUserType = [s \in Sessions |-> "none"]
    /\ channel = NoChannel
    /\ notifications = <<>>
    /\ placement = NoPlacement
    /\ routePlan = NoRoute
    /\ viewer = NoViewer

(***************************************************************************)
(* Published messages.                                                     *)
(***************************************************************************)
Notification(title) == [destination |-> "/app/notify", title |-> title]

SimulationUpdate(type, data) ==
    [destination |-> "/app/simulation/update", type |-> type, data |-> data]

\* sendNotification / broadcastSimulationUpdate: published only while the
\* client is connected
Publish(connected, messages) == IF connected THEN messages ELSE <<>>

RECURSIVE Flatten(_)
Flatten(seqs) == IF seqs = <<>> THEN <<>> ELSE Head(seqs) \o Flatten(Tail(seqs))

(***************************************************************************)
(* The producer's operations.                                              *)
(***************************************************************************)
\* the wall clock moves on.  Date.now() is read by the run of a producer
\* only (startSimulation and the ticks), so the clock of the model moves
\* while such a run is under way; the callback of a live interval runs when
\* it is due
AdvanceTime ==
    /\ now < EndOfTime
    /\ userType = "admin" /\ isSimulationRunning
    /\ ~(simulationInterval.live /\ now >= simulationInterval.due)
    /\ now' = now + ClockStepMs
    /\ lastOp' = Op("clock", "none")
    /\ outbox' = <<>>
    /\ UNCHANGED <<userType, vehicles, isSimulationRunning, isPaused, playbackSpeed2,
                   simulationStats, isReceivingSimulation, simulationInterval, wsConnected,
                   handlerReceiving, roleVars, channel, notifications, placement, routePlan, viewer>>

\* an operation that returns at its role check
AccessDenied(name) ==
    /\ lastOp' = Op("accessDenied", "none")
    /\ outbox' = <<>>
    /\ UNCHANGED <<userType, vehicles, isSimulationRunning, isPaused, playbackSpeed2,
                   simulationStats, isReceivingSimulation, simulationInterval, now,
                   wsConnected, handlerReceiving, roleVars, channel, notifications, placement, routePlan, viewer>>

\* the role check left out
IsAdminMutant == TRUE

\* userType !== "admin" refuses the operation
IsAdmin == userType = "admin"

placeVehicle(vehicleId, source, destination, speed, initialDelay) ==
    IF ~IsAdmin THEN AccessDenied("placeVehicle")
    ELSE
        /\ Len(vehicles) < 10
        /\ \A i \in DOMAIN vehicles : vehicles[i].id # vehicleId
        /\ vehicles' = Append(vehicles,
                              PlacedVehicle(vehicleId, source, destination, speed, initialDelay))
        /\ simulationStats' = StatsOf(vehicles')
        /\ lastOp' = Op("placeVehicle", "admin")
        /\ outbox' = <<>>
        /\ UNCHANGED <<userType, isSimulationRunning, isPaused, playbackSpeed2,
                       isReceivingSimulation, simulationInterval, now, wsConnected,
                       handlerReceiving, roleVars, channel, notifications, placement, routePlan, viewer>>

PlaceVehicle ==
    \E vehicleId \in VehicleIds, route \in Routes,
       speed \in Speeds, initialDelay \in InitialDelays :
        placeVehicle(vehicleId, route[1], route[2], speed, initialDelay)

startSimulation(fuelLevel) ==
    IF ~IsAdmin THEN AccessDenied("startSimulation")
    ELSE
        LET initializedVehicles ==
                [i \in DOMAIN vehicles |-> InitializedVehicle(vehicles[i], now, fuelLevel)]
        IN  /\ Len(vehicles) # 0
            /\ isSimulationRunning' = TRUE
            /\ vehicles' = initializedVehicles
            /\ simulationStats' = StatsOf(initializedVehicles)
            /\ outbox' = Publish(wsConnected,
                    << Notification("Simulation Started"),
                       SimulationUpdate("SIMULATION_STARTED",
                            [vehicles |-> initializedVehicles,
                             playbackSpeed2 |-> playbackSpeed2,
                             isRunning |-> TRUE,
                             isPaused |-> FALSE]) >>)
            /\ simulationInterval' =
                    NewInterval(simulationInterval, "start", playbackSpeed2, wsConnected, now)
            /\ lastOp' = Op("startSimulation", "admin")
            /\ UNCHANGED <<userType, isPaused, playbackSpeed2, isReceivingSimulation, now,
                           wsConnected, handlerReceiving, roleVars, channel, notifications,
                           placement, routePlan, viewer>>

StartSimulation ==
    \E fuelLevel \in FuelLevels :
        \* the Start button is disabled while a simulation runs
        /\ IsAdmin => ~isSimulationRunning
        /\ startSimulation(fuelLevel)

\* restartSimulationWithNewSpeed called from a render with the given
\* multiplier: the old interval is cleared and the ref names a new one
\* the interval in the ref not cleared before it is replaced
RestartWithoutClearMutant(speed2) ==
    NewInterval(simulationInterval, "restart", speed2, wsConnected, now)

restartSimulationWithNewSpeed(speed2) ==
    NewInterval(Cleared(simulationInterval), "restart", speed2, wsConnected, now)

\* the start time of every moving vehicle set to the time of the restart
RestartedVehiclesMutant(roster, currentTime) ==
    [i \in DOMAIN roster |->
        IF HasSim(roster[i]) /\ IsMoving(roster[i])
        THEN [roster[i] EXCEPT !.simulationData.startTime = Num(currentTime)]
        ELSE roster[i]]

\* the roster after restartSimulationWithNewSpeed: the function clears and
\* sets intervals and calls setVehicles in the callback of the interval only
RestartedVehicles(roster, currentTime) == roster

pauseSimulation ==
    IF ~IsAdmin THEN AccessDenied("pauseSimulation")
    ELSE
        /\ isPaused' = TRUE
        /\ simulationInterval' = ClearedAndNull(simulationInterval)
        /\ outbox' = Publish(wsConnected,
                <<SimulationUpdate("SIMULATION_PAUSED", [isPaused |-> TRUE])>>)
        /\ lastOp' = Op("pauseSimulation", "admin")
        /\ UNCHANGED <<userType, vehicles, isSimulationRunning, playbackSpeed2,
                       simulationStats, isReceivingSimulation, now, wsConnected,
                       handlerReceiving, roleVars, channel, notifications, placement, routePlan, viewer>>

PauseSimulation ==
    \* the Pause button is shown while a simulation runs unpaused
    /\ IsAdmin => isSimulationRunning /\ ~isPaused
    /\ pauseSimulation

resumeSimulation ==
    IF ~IsAdmin THEN AccessDenied("resumeSimulation")
    ELSE
        /\ isPaused' = FALSE
        /\ outbox' = Publish(wsConnected,
                <<SimulationUpdate("SIMULATION_RESUMED", [isPaused |-> FALSE])>>)
        /\ simulationInterval' = restartSimulationWithNewSpeed(playbackSpeed2)
        /\ vehicles' = RestartedVehicles(vehicles, now)
        /\ lastOp' = Op("resumeSimulation", "admin")
        /\ UNCHANGED <<userType, isSimulationRunning, playbackSpeed2,
                       simulationStats, isReceivingSimulation, now, wsConnected,
                       handlerReceiving, roleVars, channel, notifications, placement, routePlan, viewer>>

ResumeSimulation ==
    \* the Resume button is shown while a simulation is paused
    /\ IsAdmin => isSimulationRunning /\ isPaused
    /\ resumeSimulation

\* stoppedVehicles of stopSimulation
StoppedVehicles(roster) == [i \in DOMAIN roster |-> [roster[i] EXCEPT !.status = "idle"]]

stopSimulation ==
    IF ~IsAdmin THEN AccessDenied("stopSimulation")
    ELSE
        LET stoppedVehicles == StoppedVehicles(vehicles)
        IN  /\ isSimulationRunning' = FALSE
            /\ isPaused' = FALSE
            /\ simulationInterval' = Cleared(simulationInterval)
            /\ vehicles' = stoppedVehicles
            /\ simulationStats' = StatsOf(stoppedVehicles)
            /\ outbox' = Publish(wsConnected,
                    << SimulationUpdate("SIMULATION_STOPPED",
                            [vehicles |-> stoppedVehicles,
                             isRunning |-> FALSE,
                             isPaused |-> FALSE]),
                       Notification("Simulation Stopped") >>)
            /\ lastOp' = Op("stopSimulation", "admin")
            /\ UNCHANGED <<userType, playbackSpeed2, isReceivingSimulation, now, wsConnected,
                           handlerReceiving, roleVars, channel, notifications, placement, routePlan, viewer>>

StopSimulation ==
    \* the Stop button is disabled unless a simulation runs
    /\ IsAdmin => isSimulationRunning
    /\ stopSimulation

\* changePlaybackSpeed, and the playback speed effect that runs after the
\* render with the new multiplier
changePlaybackSpeed(speed2) ==
    IF ~IsAdmin THEN AccessDenied("changePlaybackSpeed")
    ELSE
        /\ playbackSpeed2' = speed2
        /\ simulationInterval' =
                IF isSimulationRunning /\ ~isPaused
                THEN \* the call in changePlaybackSpeed sees the old multiplier;
                     \* the effect, run when the multiplier changed, the new one
                     IF speed2 # playbackSpeed2
                     THEN restartSimulationWithNewSpeed(speed2)
                     ELSE restartSimulationWithNewSpeed(playbackSpeed2)
                ELSE simulationInterval
        /\ vehicles' =
                IF isSimulationRunning /\ ~isPaused
                THEN RestartedVehicles(vehicles, now)
                ELSE vehicles
        /\ lastOp' = Op("changePlaybackSpeed", "admin")
        /\ outbox' = <<>>
        /\ UNCHANGED <<userType, isSimulationRunning, isPaused, simulationStats,
                       isReceivingSimulation, now, wsConnected, handlerReceiving, roleVars,
                       channel, notifications, placement, routePlan, viewer>>

ChangePlaybackSpeed ==
    \E speed2 \in PlaybackSpeeds2 :
        \* the speed buttons are shown while a simulation runs
        /\ IsAdmin => isSimulationRunning
        /\ changePlaybackSpeed(speed2)

\* a saved record: the positions of its waypoints and its vehicles
SimulationRecords ==
    { [waypoints |-> << [latitude |-> 100, longitude |-> 100],
                        [latitude |-> 100, longitude |-> 110] >>,
       vehicles |-> << [vehicle_id |-> 1, speed |-> 18, initialDelay |-> 0] >>] }

\* ISLAMABAD_WAYPOINTS.find: the first waypoint at the position, if any
MatchedWaypoints(recordWaypoints) ==
    LET AtPosition(recordWp) ==
            {i \in DOMAIN ISLAMABAD_WAYPOINTS :
                /\ ISLAMABAD_WAYPOINTS[i].lat = recordWp.latitude
                /\ ISLAMABAD_WAYPOINTS[i].lng = recordWp.longitude}
        First(recordWp) ==
            ISLAMABAD_WAYPOINTS[CHOOSE i \in AtPosition(recordWp) :
                                    \A j \in AtPosition(recordWp) : i <= j]
        matching == SelectSeq(recordWaypoints, LAMBDA recordWp : AtPosition(recordWp) # {})
    IN  [k \in DOMAIN matching |-> First(matching[k])]

\* the route of every vehicle of a record composed by calculateOptimalPath
LoadedVehicleMutant(vehicleInfo, matchedWaypoints) ==
    LET vehicle == fetchVehicle(vehicleInfo.vehicle_id, vehicleInfo.speed,
                                vehicleInfo.initialDelay)
        sourceWaypoint == matchedWaypoints[1]
        targetWaypoint ==
            IF Len(matchedWaypoints) >= 2 THEN matchedWaypoints[2] ELSE matchedWaypoints[1]
    IN  [id |-> vehicleInfo.vehicle_id,
         licensePlate |-> vehicle.licensePlate,
         model |-> vehicle.model,
         brand |-> vehicle.brand,
         type |-> vehicle.type,
         currentWaypoint |-> sourceWaypoint.id,
         targetWaypoint |-> targetWaypoint.id,
         speed |-> vehicleInfo.speed,
         initialDelay |-> vehicleInfo.initialDelay,
         plannedPath |->
            calculateOptimalPath(sourceWaypoint, targetWaypoint),
         status |-> "idle",
         simulationData |-> Undefined]

\* a vehicle of a record, at the record's first waypoint and bound for its
\* second
LoadedVehicle(vehicleInfo, matchedWaypoints) ==
    LET vehicle == fetchVehicle(vehicleInfo.vehicle_id, vehicleInfo.speed,
                                vehicleInfo.initialDelay)
        sourceWaypoint == matchedWaypoints[1]
        targetWaypoint ==
            IF Len(matchedWaypoints) >= 2 THEN matchedWaypoints[2] ELSE matchedWaypoints[1]
    IN  [id |-> vehicleInfo.vehicle_id,
         licensePlate |-> vehicle.licensePlate,
         model |-> vehicle.model,
         brand |-> vehicle.brand,
         type |-> vehicle.type,
         currentWaypoint |-> sourceWaypoint.id,
         targetWaypoint |-> targetWaypoint.id,
         speed |-> vehicleInfo.speed,
         initialDelay |-> vehicleInfo.initialDelay,
         plannedPath |->
            IF targetWaypoint.id # sourceWaypoint.id
            THEN calculateOptimalPath(sourceWaypoint, targetWaypoint)
            ELSE <<AnchorPoint(sourceWaypoint)>>,
         status |-> "idle",
         simulationData |-> Undefined]

\* loadSimulationRecord, the requests of its vehicles answered: the run is
\* ended and the roster is the record's; isPaused keeps its value
loadSimulationRecord(record) ==
    IF ~IsAdmin THEN AccessDenied("loadSimulationRecord")
    ELSE
        LET matchedWaypoints == MatchedWaypoints(record.waypoints)
            loadedVehicles ==
                IF Len(matchedWaypoints) = 0 THEN <<>>
                ELSE [k \in DOMAIN record.vehicles |->
                        LoadedVehicle(record.vehicles[k], matchedWaypoints)]
        IN  /\ vehicles' = loadedVehicles
            /\ isSimulationRunning' = FALSE
            /\ simulationInterval' = Cleared(simulationInterval)
            /\ simulationStats' = StatsOf(loadedVehicles)
            /\ outbox' = <<>>
            /\ lastOp' = Op("loadSimulationRecord", "admin")
            /\ UNCHANGED <<userType, isPaused, playbackSpeed2, isReceivingSimulation, now,
                           wsConnected, handlerReceiving, roleVars, channel, notifications,
                           placement, routePlan, viewer>>

LoadSimulationRecord == \E record \in SimulationRecords : loadSimulationRecord(record)

(***************************************************************************)
(* The tick loops.                                                         *)
(***************************************************************************)
\* the entry of a position delta for a vehicle
PositionUpdate(vehicle, currentTime) ==
    [id |-> vehicle.id,
     licensePlate |-> vehicle.licensePlate,
     currentLat |-> vehicle.simulationData.currentLat,
     currentLng |-> vehicle.simulationData.currentLng,
     heading |-> JsOr(vehicle.simulationData.heading, Num(0)),
     progress |-> JsOr(vehicle.simulationData.progress, Num(0)),
     status |-> vehicle.status,
     distanceTravelled |-> JsOr(vehicle.simulationData.distanceTravelled, Num(0)),
     timestamp |-> Num(currentTime)]

\* the vehicles a position delta lists
Broadcastable(vehicle) ==
    /\ vehicle.status = "moving"
    /\ HasSim(vehicle)
    /\ Truthy(vehicle.simulationData.currentLat)
    /\ Truthy(vehicle.simulationData.currentLng)

\* the notifications of the startSimulation loop for one vehicle
TickNotifications(vehicle, currentTime) ==
    IF HasSim(vehicle) /\ InDelay(vehicle)
       /\ currentTime - vehicle.simulationData.delayStartTime.n >= vehicle.initialDelay * 1000
    THEN <<Notification("Vehicle Started Moving")>>
    ELSE IF TickVehicle(vehicle, currentTime, simulationInterval.speed2).status = "stopped"
            /\ vehicle.status = "moving"
    THEN <<Notification("Journey Complete")>>
    ELSE <<>>

\* what one tick of the startSimulation loop publishes
StartLoopBroadcast(updatedVehicles, sendFull) ==
    LET currentStats == StatsOf(updatedVehicles)
        moving == SelectSeq(updatedVehicles, Broadcastable)
        positionUpdates == [k \in DOMAIN moving |-> PositionUpdate(moving[k], now)]
    IN  (IF Len(positionUpdates) > 0
         THEN <<SimulationUpdate("LIVE_POSITION_UPDATE",
                    [vehicles |-> positionUpdates, stats |-> currentStats])>>
         ELSE <<>>)
        \o (IF sendFull
            THEN <<SimulationUpdate("VEHICLE_UPDATE",
                       [vehicles |-> updatedVehicles, stats |-> currentStats])>>
            ELSE <<>>)

\* what one tick of the restartSimulationWithNewSpeed loop publishes
RestartLoopBroadcast(updatedVehicles) ==
    <<SimulationUpdate("VEHICLE_UPDATE",
          [vehicles |-> updatedVehicles, stats |-> StatsOf(updatedVehicles)])>>

\* a tick of the interval created by startSimulation; sendFull is
\* Math.random() < 0.1
StartLoopTick(sendFull) ==
    LET updatedVehicles ==
            [i \in DOMAIN vehicles |->
                TickVehicle(vehicles[i], now, simulationInterval.speed2)]
        tickNotifications ==
            Flatten([i \in DOMAIN vehicles |-> TickNotifications(vehicles[i], now)])
    IN  /\ simulationInterval.live
        /\ simulationInterval.loop = "start"
        /\ now >= simulationInterval.due
        /\ vehicles' = updatedVehicles
        /\ simulationStats' = StatsOf(updatedVehicles)
        /\ outbox' = IF simulationInterval.ws
                     THEN Publish(wsConnected,
                                  tickNotifications
                                  \o (IF IsAdmin
                                      THEN StartLoopBroadcast(updatedVehicles, sendFull)
                                      ELSE <<>>))
                     ELSE <<>>
        /\ simulationInterval' =
                [simulationInterval EXCEPT !.due = now + IntervalMs(simulationInterval.speed2)]
        /\ lastOp' = Op("tick", "tick")
        /\ UNCHANGED <<userType, isSimulationRunning, isPaused, playbackSpeed2,
                       isReceivingSimulation, now, wsConnected, handlerReceiving, roleVars,
                       channel, notifications, placement, routePlan, viewer>>

\* a tick of the interval created by restartSimulationWithNewSpeed
RestartLoopTick ==
    LET updatedVehicles ==
            [i \in DOMAIN vehicles |->
                RestartTickVehicle(vehicles[i], now, simulationInterval.speed2)]
    IN  /\ simulationInterval.live
        /\ simulationInterval.loop = "restart"
        /\ now >= simulationInterval.due
        /\ vehicles' = updatedVehicles
        /\ simulationStats' = StatsOf(updatedVehicles)
        /\ outbox' = IF simulationInterval.ws /\ IsAdmin
                     THEN Publish(wsConnected, RestartLoopBroadcast(updatedVehicles))
                     ELSE <<>>
        /\ simulationInterval' =
                [simulationInterval EXCEPT !.due = now + IntervalMs(simulationInterval.speed2)]
        /\ lastOp' = Op("tick", "tick")
        /\ UNCHANGED <<userType, isSimulationRunning, isPaused, playbackSpeed2,
                       isReceivingSimulation, now, wsConnected, handlerReceiving, roleVars,
                       channel, notifications, placement, routePlan, viewer>>

Tick == (\E sendFull \in BOOLEAN : StartLoopTick(sendFull)) \/ RestartLoopTick

(***************************************************************************)
(* The Reconciler: handleSimulationUpdate.                                 *)
(***************************************************************************)
\* existingVehiclesMap.get(id): the last vehicle of the roster with the id
\* (each set of the same key replaces the one before), or Undefined
ExistingVehicle(roster, id) ==
    LET matches == {i \in DOMAIN roster : roster[i].id = id}
    IN  IF matches = {} THEN Undefined
        ELSE roster[CHOOSE i \in matches : \A j \in matches : j <= i]

UsablePosition(positionUpdate) ==
    Truthy(positionUpdate.currentLat) /\ Truthy(positionUpdate.currentLng)

\* new Date(positionUpdate.timestamp || Date.now()).toISOString()
EntryTimestamp(positionUpdate, currentTime) == JsOr(positionUpdate.timestamp, Num(currentTime))

\* LIVE_POSITION_UPDATE, a known id with a usable position
MergedVehicle(existingVehicle, positionUpdate, currentTime) ==
    LET sim == existingVehicle.simulationData
        has == HasSim(existingVehicle)
        Old(field, default) == IF has THEN JsOr(sim[field], default) ELSE default
    IN  [existingVehicle EXCEPT
            !.status = positionUpdate.status,
            !.simulationData =
                \* avgSpeed || positionUpdate.speed || 50: an entry carries no speed
                [avgSpeed |-> IF has /\ sim.avgSpeed # 0 THEN sim.avgSpeed ELSE 50,
                 latitude |-> positionUpdate.currentLat,
                 longitude |-> positionUpdate.currentLng,
                 heading |-> JsOr(positionUpdate.heading, Old("heading", Num(0))),
                 status |-> JsOrStr(positionUpdate.status,
                                    IF has THEN JsOrStr(sim.status, "moving") ELSE "moving"),
                 timestamp |-> EntryTimestamp(positionUpdate, currentTime),
                 fuelLevel |-> IF has /\ sim.fuelLevel # 0 THEN sim.fuelLevel ELSE 75,
                 engineStatus |-> TRUE,
                 distanceTravelled |->
                    JsOr(positionUpdate.distanceTravelled, Old("distanceTravelled", Num(0))),
                 startTime |-> IF has THEN sim.startTime ELSE Undefined,
                 currentLat |-> positionUpdate.currentLat,
                 currentLng |-> positionUpdate.currentLng,
                 progress |-> JsOr(positionUpdate.progress, Old("progress", Num(0))),
                 pathIndex |-> IF has THEN sim.pathIndex ELSE Undefined,
                 delayStartTime |-> IF has THEN sim.delayStartTime ELSE Undefined,
                 isDelayed |-> IF has THEN sim.isDelayed ELSE FALSE],
            !.licensePlate = JsOrStr(positionUpdate.licensePlate, existingVehicle.licensePlate)]

\* LIVE_POSITION_UPDATE, an unknown id with a usable position
NewVehicleFromUpdate(positionUpdate, currentTime) ==
    [id |-> positionUpdate.id,
     licensePlate |-> JsOrStr(positionUpdate.licensePlate,
                              "Vehicle-" \o ToString(positionUpdate.id)),
     model |-> "Unknown Model",
     brand |-> "Unknown Brand",
     type |-> "Unknown Type",
     currentWaypoint |-> NoWaypoint,
     targetWaypoint |-> NoWaypoint,
     speed |-> 50,
     initialDelay |-> 0,
     status |-> JsOrStr(positionUpdate.status, "moving"),
     simulationData |->
        [avgSpeed |-> 50,
         latitude |-> positionUpdate.currentLat,
         longitude |-> positionUpdate.currentLng,
         heading |-> JsOr(positionUpdate.heading, Num(0)),
         status |-> JsOrStr(positionUpdate.status, "moving"),
         timestamp |-> EntryTimestamp(positionUpdate, currentTime),
         fuelLevel |-> 75,
         engineStatus |-> TRUE,
         distanceTravelled |-> JsOr(positionUpdate.distanceTravelled, Num(0)),
         startTime |-> Undefined,
         currentLat |-> positionUpdate.currentLat,
         currentLng |-> positionUpdate.currentLng,
         progress |-> JsOr(positionUpdate.progress, Num(0)),
         pathIndex |-> Undefined,
         delayStartTime |-> Undefined,
         isDelayed |-> FALSE],
     plannedPath |-> <<>>]

\* no vehicle made for an id the roster does not hold
ApplyPositionUpdateMutant(prevVehicles, positionUpdate, currentTime) ==
    LET existingVehicle == ExistingVehicle(prevVehicles, positionUpdate.id)
    IN  IF existingVehicle # Undefined /\ UsablePosition(positionUpdate)
        THEN MergedVehicle(existingVehicle, positionUpdate, currentTime)
        ELSE existingVehicle

\* what one entry of a position delta becomes; Undefined when it is dropped
ApplyPositionUpdate(prevVehicles, positionUpdate, currentTime) ==
    LET existingVehicle == ExistingVehicle(prevVehicles, positionUpdate.id)
    IN  IF existingVehicle # Undefined /\ UsablePosition(positionUpdate)
        THEN MergedVehicle(existingVehicle, positionUpdate, currentTime)
        ELSE IF UsablePosition(positionUpdate)
        THEN NewVehicleFromUpdate(positionUpdate, currentTime)
        ELSE existingVehicle

\* updatedVehicles.filter((v) => v && v.id)
ValidVehicle(v) == v # Undefined /\ v.id # 0

\* the roster after a LIVE_POSITION_UPDATE
MergePositionUpdates(prevVehicles, positionUpdates, currentTime) ==
    SelectSeq([k \in DOMAIN positionUpdates |->
                  ApplyPositionUpdate(prevVehicles, positionUpdates[k], currentTime)],
              ValidVehicle)

\* the first entry of a legacy LIVE_LOCATION_UPDATE with the id, or Undefined
FindUpdate(updates, id) ==
    LET matches == {k \in DOMAIN updates : updates[k].id = id}
    IN  IF matches = {} THEN Undefined
        ELSE updates[CHOOSE k \in matches : \A j \in matches : k <= j]

\* LIVE_LOCATION_UPDATE: one vehicle of the roster
LegacyMergedVehicle(prevVehicle, updates) ==
    LET updatedVehicle == FindUpdate(updates, prevVehicle.id)
        sim == prevVehicle.simulationData
        has == HasSim(prevVehicle)
        Old(field, default) == IF has THEN JsOr(sim[field], default) ELSE default
    IN  IF updatedVehicle # Undefined /\ UsablePosition(updatedVehicle)
        THEN [prevVehicle EXCEPT
                !.status = JsOrStr(updatedVehicle.status, prevVehicle.status),
                !.simulationData =
                    [updatedVehicle.simulationData EXCEPT
                        !.currentLat = updatedVehicle.currentLat,
                        !.currentLng = updatedVehicle.currentLng,
                        !.heading = JsOr(updatedVehicle.heading, Old("heading", Num(0))),
                        !.progress = JsOr(updatedVehicle.progress, Old("progress", Num(0))),
                        !.distanceTravelled =
                            JsOr(updatedVehicle.distanceTravelled,
                                 Old("distanceTravelled", Num(0))),
                        !.status = JsOrStr(updatedVehicle.simulationData.status,
                                           JsOrStr(updatedVehicle.status, prevVehicle.status)),
                        !.timestamp = updatedVehicle.simulationData.timestamp],
                \* an entry carries its path, and an array is true in JS
                !.plannedPath = updatedVehicle.plannedPath,
                !.currentWaypoint =
                    IF updatedVehicle.currentWaypoint \notin {NoWaypoint, 0}
                    THEN updatedVehicle.currentWaypoint ELSE prevVehicle.currentWaypoint,
                !.targetWaypoint =
                    IF updatedVehicle.targetWaypoint \notin {NoWaypoint, 0}
                    THEN updatedVehicle.targetWaypoint ELSE prevVehicle.targetWaypoint]
        ELSE prevVehicle

\* the entry of a legacy LIVE_LOCATION_UPDATE for a vehicle
\* (broadcastLiveLocationUpdate)
LegacyLocationUpdate(vehicle, currentTime) ==
    [id |-> vehicle.id,
     licensePlate |-> vehicle.licensePlate,
     status |-> vehicle.status,
     currentLat |-> vehicle.simulationData.currentLat,
     currentLng |-> vehicle.simulationData.currentLng,
     heading |-> JsOr(vehicle.simulationData.heading, Num(0)),
     progress |-> JsOr(vehicle.simulationData.progress, Num(0)),
     speed |-> vehicle.speed,
     distanceTravelled |-> JsOr(vehicle.simulationData.distanceTravelled, Num(0)),
     simulationData |->
        [vehicle.simulationData EXCEPT
            !.heading = JsOr(vehicle.simulationData.heading, Num(0)),
            !.progress = JsOr(vehicle.simulationData.progress, Num(0)),
            !.status = JsOrStr(vehicle.simulationData.status, vehicle.status),
            !.timestamp = Num(currentTime)],
     plannedPath |-> vehicle.plannedPath,
     currentWaypoint |-> vehicle.currentWaypoint,
     targetWaypoint |-> vehicle.targetWaypoint]

\* a message of /topic/simulation or /topic/live-locations
Message(type, data) == [type |-> type, data |-> data]

\* whether the handler takes the session as a viewer that is receiving: the
\* subscription calls the handleSimulationUpdate of the render in which the
\* connection was created, with the isReceivingSimulation of that render
\* the role check left out
IsViewerMutant == TRUE

\* userType === "user"
IsViewer == userType = "user"

HandlerReceiving == IsViewer /\ handlerReceiving

\* the vehicles of the message appended to the roster
OnSimulationStartedMutant(same, data) ==
    [same EXCEPT !.receiving = TRUE, !.running = TRUE, !.paused = FALSE,
                 !.vehicles = same.vehicles \o data.vehicles,
                 !.speed2 = JsOr(data.playbackSpeed2, Num(2)).n,
                 !.wrote = TRUE]

\* case "SIMULATION_STARTED" of a viewer
OnSimulationStarted(same, data) ==
    [same EXCEPT !.receiving = TRUE, !.running = TRUE, !.paused = FALSE,
                 !.vehicles = data.vehicles,
                 !.speed2 = JsOr(data.playbackSpeed2, Num(2)).n,
                 !.wrote = TRUE]

\* case "SIMULATION_STOPPED" of a viewer
OnSimulationStopped(same, data) ==
    [same EXCEPT !.receiving = FALSE, !.running = FALSE, !.paused = FALSE,
                 !.vehicles = [i \in DOMAIN same.vehicles |->
                                  [same.vehicles[i] EXCEPT !.status = "idle"]],
                 !.wrote = TRUE]

\* case "SIMULATION_STATE" of a viewer, the message telling of a run
OnSimulationState(same, data) ==
    [same EXCEPT !.receiving = TRUE, !.running = data.isRunning,
                 !.paused = data.isPaused,
                 !.vehicles = data.vehicles,
                 !.speed2 = JsOr(data.playbackSpeed2, Num(2)).n,
                 !.wrote = TRUE]

\* handleSimulationUpdate: the state after the message, as
\* [vehicles, running, paused, speed2, receiving, wrote]
Handled(message) ==
    LET data == message.data
        same == [vehicles |-> vehicles, running |-> isSimulationRunning, paused |-> isPaused,
                 speed2 |-> playbackSpeed2, receiving |-> isReceivingSimulation,
                 wrote |-> FALSE]
    IN  CASE message.type = "SIMULATION_STARTED" /\ IsViewer ->
                OnSimulationStarted(same, data)
          [] message.type = "SIMULATION_STOPPED" /\ IsViewer ->
                OnSimulationStopped(same, data)
          [] message.type = "SIMULATION_PAUSED" /\ IsViewer ->
                [same EXCEPT !.paused = TRUE]
          [] message.type = "SIMULATION_RESUMED" /\ IsViewer ->
                [same EXCEPT !.paused = FALSE]
          [] message.type = "VEHICLE_UPDATE" /\ HandlerReceiving ->
                [same EXCEPT !.vehicles = data.vehicles, !.wrote = TRUE]
          [] message.type = "LIVE_POSITION_UPDATE" /\ HandlerReceiving ->
                [same EXCEPT !.vehicles = MergePositionUpdates(vehicles, data.vehicles, now),
                             !.wrote = TRUE]
          [] message.type = "LIVE_LOCATION_UPDATE" /\ HandlerReceiving ->
                [same EXCEPT !.vehicles = [i \in DOMAIN vehicles |->
                                              LegacyMergedVehicle(vehicles[i], data.vehicles)],
                             !.wrote = TRUE]
          [] message.type = "SIMULATION_STATE" /\ IsViewer /\ data.isRunning ->
                OnSimulationState(same, data)
          [] OTHER -> same

\* the subscription callback: handleSimulationUpdate, then the effect that
\* recomputes the statistics of a roster that was set
handleSimulationUpdate(message) ==
    LET after == Handled(message)
    IN  /\ vehicles' = after.vehicles
        /\ isSimulationRunning' = after.running
        /\ isPaused' = after.paused
        /\ playbackSpeed2' = after.speed2
        /\ isReceivingSimulation' = after.receiving
        /\ simulationStats' = IF after.wrote THEN StatsOf(after.vehicles) ELSE simulationStats
        /\ lastOp' = [op |-> "handleSimulationUpdate",
                      writer |-> IF after.wrote THEN "reconciler" ELSE "none",
                      type |-> IF after.wrote THEN message.type ELSE "none"]
        /\ outbox' = <<>>
        /\ UNCHANGED <<userType, simulationInterval, now, wsConnected, handlerReceiving,
                       roleVars, channel, notifications, placement, routePlan, viewer>>

(***************************************************************************)
(* The messages a session receives.                                        *)
(***************************************************************************)
\* rosters as a producer publishes them: a vehicle under way, a delayed one
SampleMoving ==
    TickVehicle(InitializedVehicle(PlacedVehicle(1, 1, 2, 18, 0), StartOfTime, 75),
                StartOfTime + ClockStepMs, 2)

SampleDelayed == InitializedVehicle(PlacedVehicle(2, 2, 1, 18, 1), StartOfTime, 75)

SampleRosters == {<<>>, <<SampleMoving, SampleDelayed>>}

\* ids of position-delta entries: one of the sample rosters, and one that
\* no roster holds
EntryIds == {1, 3}

\* an entry of a vehicle under way, heading east
EntryMoving(id) ==
    [id |-> id, licensePlate |-> "LP-" \o ToString(id),
     currentLat |-> Num(100), currentLng |-> Num(108), heading |-> Num(90),
     progress |-> Frac(4, 5), status |-> "moving", distanceTravelled |-> Num(8),
     timestamp |-> Num(StartOfTime)]

\* an entry of a vehicle whose delay just ended: at its first point, heading
\* 0, progress 0, no distance
EntryAtStart(id) ==
    [EntryMoving(id) EXCEPT !.currentLng = Num(100), !.heading = Num(0),
                            !.progress = Num(0), !.distanceTravelled = Num(0)]

\* an entry without a position
EntryNoPosition(id) ==
    [EntryMoving(id) EXCEPT !.currentLat = Undefined, !.currentLng = Undefined]

\* an entry of an id, a position and a timestamp only
EntryBare(id) ==
    [id |-> id, licensePlate |-> UndefStr,
     currentLat |-> Num(100), currentLng |-> Num(108), heading |-> Undefined,
     progress |-> Undefined, status |-> UndefStr, distanceTravelled |-> Undefined,
     timestamp |-> Num(StartOfTime)]

PositionEntries ==
    UNION {{EntryMoving(id), EntryAtStart(id), EntryNoPosition(id), EntryBare(id)} :
            id \in EntryIds}

\* the lists of a position delta: no entry, one, or two of different ids
PositionLists ==
    {<<>>} \cup {<<e>> : e \in PositionEntries}
           \cup {<<EntryMoving(1), EntryAtStart(3)>>,
                 <<EntryBare(3), EntryNoPosition(1)>>,
                 <<EntryNoPosition(3), EntryAtStart(1)>>}

Messages ==
    {Message("SIMULATION_STARTED",
             [vehicles |-> r, playbackSpeed2 |-> m, isRunning |-> TRUE, isPaused |-> FALSE]) :
        r \in SampleRosters, m \in {Undefined, Num(10)}}
    \cup {Message(t, [isPaused |-> t = "SIMULATION_PAUSED"]) :
            t \in {"SIMULATION_PAUSED", "SIMULATION_RESUMED", "SIMULATION_STOPPED", "UNKNOWN"}}
    \cup {Message("VEHICLE_UPDATE", [vehicles |-> r, stats |-> StatsOf(r)]) :
            r \in SampleRosters}
    \cup {Message("LIVE_POSITION_UPDATE", [vehicles |-> l, stats |-> NoStats]) :
            l \in PositionLists}
    \cup {Message("LIVE_LOCATION_UPDATE", [vehicles |-> l]) :
            l \in {<<>>, <<LegacyLocationUpdate(SampleMoving, StartOfTime)>>}}
    \cup {Message("SIMULATION_STATE",
                  [vehicles |-> r, playbackSpeed2 |-> Num(10), isRunning |-> run,
                   isPaused |-> p, stats |-> StatsOf(r)]) :
            r \in SampleRosters, run \in BOOLEAN, p \in {FALSE}}

\* a message arrives on a subscription
Receive ==
    \E message \in Messages :
        /\ wsConnected
        /\ handleSimulationUpdate(message)

(***************************************************************************)
(* The channel, as far as the session sees it.                             *)
(***************************************************************************)
\* createConnection and client.onConnect: the subscriptions call the
\* callbacks of the render that created the connection
ChannelConnect ==
    /\ ~wsConnected
    /\ wsConnected' = TRUE
    /\ handlerReceiving' = isReceivingSimulation
    /\ UNCHANGED <<userType, vehicles, isSimulationRunning, isPaused, playbackSpeed2,
                   simulationStats, isReceivingSimulation, simulationInterval, now, outbox,
                   lastOp, roleVars, channel, notifications, placement, routePlan, viewer>>

\* client.onWebSocketClose and the reconnection that follows it: a new
\* connection, whose subscriptions call the callbacks of the current render
ChannelReconnect ==
    /\ wsConnected
    /\ handlerReceiving' = isReceivingSimulation
    /\ UNCHANGED <<userType, vehicles, isSimulationRunning, isPaused, playbackSpeed2,
                   simulationStats, isReceivingSimulation, simulationInterval, now,
                   wsConnected, outbox, lastOp, roleVars, channel, notifications, placement, routePlan, viewer>>

Next ==
    \/ AdvanceTime
    \/ PlaceVehicle
    \/ StartSimulation
    \/ PauseSimulation
    \/ ResumeSimulation
    \/ StopSimulation
    \/ ChangePlaybackSpeed
    \/ LoadSimulationRecord
    \/ Tick
    \/ Receive
    \/ ChannelConnect
    \/ ChannelReconnect

Spec == Init /\ [][Next]_vars

(***************************************************************************)
(* SpecRole: logins.  Each browser session has its own localStorage; the   *)
(* backend's answer to a login request is not the frontend's to decide.    *)
(***************************************************************************)
LoginTypes == {"admin", "user"}

\* handleLogin of the welcome page: the role the form selected is stored
\* when the backend accepts the credentials
handleLogin(s, loginType, responseOk) ==
    /\ sessionUserType[s] = "none"
    /\ storedUserType' =
            IF responseOk THEN [storedUserType EXCEPT ![s] = loginType] ELSE storedUserType
    /\ UNCHANGED <<sessionUserType, sessionVars, channel, notifications, placement, routePlan, viewer>>

\* checkAuth, run when the simulator page mounts: without a stored login the
\* session is sent to the welcome page, with one the stored role is the
\* session's
checkAuth(s) ==
    /\ sessionUserType[s] = "none"
    /\ sessionUserType' =
            IF storedUserType[s] = "none" THEN sessionUserType
            ELSE [sessionUserType EXCEPT ![s] = storedUserType[s]]
    /\ UNCHANGED <<storedUserType, sessionVars, channel, notifications, placement, routePlan, viewer>>

\* handleLogout: the stored login is removed and the simulator page left
handleLogout(s) ==
    /\ sessionUserType[s] # "none"
    /\ storedUserType' = [storedUserType EXCEPT ![s] = "none"]
    /\ sessionUserType' = [sessionUserType EXCEPT ![s] = "none"]
    /\ UNCHANGED <<sessionVars, channel, notifications, placement, routePlan, viewer>>

Login == \E s \in Sessions, loginType \in LoginTypes, responseOk \in BOOLEAN :
            handleLogin(s, loginType, responseOk)

CheckAuth == \E s \in Sessions : checkAuth(s)

Logout == \E s \in Sessions : handleLogout(s)

InitRole == Init /\ userType = "user"

NextRole ==
    \/ Login
    \/ CheckAuth
    \/ Logout

SpecRole == InitRole /\ [][NextRole]_vars

(***************************************************************************)
(* SpecChannel: useWebSocket.  Each action is a callback of the hook, the  *)
(* render that follows it and the effects of that render.  The transport   *)
(* calls the callbacks of the client in clientRef.current.  A socket that  *)
(* fails fires its error event and then its close event: the client calls  *)
(* onWebSocketError and then onWebSocketClose, also when the first callback *)
(* has deactivated it.  A client that cleanup deactivated while its socket *)
(* was sound calls nothing more.                                           *)
(***************************************************************************)
\* the frames of the channel
Frames == {"notification", "simulation", "live-location"}

\* an operation begins: what the one before it did is forgotten
Begin(c, name) == [c EXCEPT !.op = name, !.created = 0, !.tornDown = FALSE, !.sent = <<>>]

\* the clients of the pending request timeouts are connected no more
Disconnected(requestTimeouts) ==
    [k \in DOMAIN requestTimeouts |-> [requestTimeouts[k] EXCEPT !.connected = FALSE]]

cleanup(c) ==
    [c EXCEPT !.reconnectTimeout = NoTimeout,
              !.client = NoClient,
              !.requestTimeouts = Disconnected(@),
              !.tornDown = @ \/ c.client.state \in {"connecting", "connected"}]

\* createConnection of a render with the given enabled and reconnectAttempts
createConnection(c, enabled, attempts) ==
    IF ~enabled THEN c
    ELSE [c EXCEPT !.client = [state |-> "connecting", attempts |-> attempts,
                               subscriptions |-> {}],
                   !.created = @ + 1]

\* connect of a render with the given enabled and reconnectAttempts
connect(c, enabled, attempts) ==
    IF ~enabled THEN c
    ELSE IF attempts > 0
         THEN [cleanup(c) EXCEPT !.reconnectTimeout =
                    [pending |-> TRUE, delay |-> ReconnectDelay(attempts),
                     attempts |-> attempts]]
         ELSE createConnection(cleanup(c), enabled, attempts)

\* the render after an operation: connect is memoised on enabled and
\* reconnectAttempts, and the effect that depends on it runs again when it
\* changed, its cleanup first
Rendered(before, after) ==
    IF after.enabled = before.enabled /\ after.reconnectAttempts = before.reconnectAttempts
    THEN after
    ELSE IF after.enabled
         THEN connect(cleanup(after), after.enabled, after.reconnectAttempts)
         ELSE [cleanup(cleanup(after)) EXCEPT !.isConnected = FALSE,
                                              !.connectionError = "null",
                                              !.reconnectAttempts = 0]

\* enabled && reconnectAttempts < maxReconnectAttempts, as the callbacks of
\* a client captured them
CanRetry(c, attempts) == c.enabled /\ attempts < maxReconnectAttempts

\* setReconnectAttempts((prev) => prev + 1); connect()
Retry(c, attempts) ==
    connect([c EXCEPT !.reconnectAttempts = @ + 1], c.enabled, attempts)

\* the session logs in: enabled becomes true
Enable ==
    LET c == Begin(channel, "enable")
    IN  /\ ~channel.enabled
        /\ channel' = Rendered(c, [c EXCEPT !.enabled = TRUE])
        /\ UNCHANGED <<sessionVars, roleVars, notifications, placement, routePlan, viewer>>

\* the timeout of connect expires
ReconnectTimeout ==
    LET c == Begin(channel, "timeout")
    IN  /\ channel.reconnectTimeout.pending
        /\ ~channel.failing.pending
        /\ channel' = createConnection([c EXCEPT !.reconnectTimeout = NoTimeout],
                                       c.enabled, c.reconnectTimeout.attempts)
        /\ UNCHANGED <<sessionVars, roleVars, notifications, placement, routePlan, viewer>>

\* onConnect: the three subscriptions, and then the timeout of the request
\* of the current state
Subscribed(c) ==
    [c EXCEPT !.client.subscriptions = Topics,
              !.requestTimeouts =
                    Append(@, [delay |-> RequestStateDelay, connected |-> TRUE])]

\* client.onConnect
onConnect ==
    LET c == Begin(channel, "onConnect")
        connected ==
            [c EXCEPT !.client.state = "connected",
                      !.isConnected = TRUE,
                      !.connectionError = "null",
                      !.reconnectAttempts = 0]
    IN  /\ channel.client.state = "connecting"
        /\ ~channel.failing.pending
        /\ Len(channel.requestTimeouts) < MaxRequestTimeouts
        /\ channel' = Rendered(c, Subscribed(connected))
        /\ UNCHANGED <<sessionVars, roleVars, notifications, placement, routePlan, viewer>>

\* the request published whatever became of the client
RequestedMutant(c) == [c EXCEPT !.requestTimeouts = Tail(@), !.sent = <<"request-state">>]

\* the callback of the timeout of onConnect: if (client.connected) publish
Requested(c) ==
    [c EXCEPT !.requestTimeouts = Tail(@),
              !.sent = IF Head(c.requestTimeouts).connected
                       THEN <<"request-state">> ELSE <<>>]

\* the timeout of onConnect expires
RequestStateTimeout ==
    /\ channel.requestTimeouts # <<>>
    /\ channel' = Requested(Begin(channel, "requestStateTimeout"))
    /\ UNCHANGED <<sessionVars, roleVars, notifications, placement, routePlan, viewer>>

\* client.onDisconnect
onDisconnect ==
    LET c == Begin(channel, "onDisconnect")
        down == [c EXCEPT !.isConnected = FALSE, !.client.state = "closed",
                          !.requestTimeouts = Disconnected(@)]
    IN  /\ channel.client.state = "connected"
        /\ ~channel.failing.pending
        /\ channel' = Rendered(c,
                IF CanRetry(c, c.client.attempts) THEN Retry(down, c.client.attempts)
                ELSE IF c.client.attempts >= maxReconnectAttempts
                     THEN [down EXCEPT !.connectionError = "Max reconnection attempts reached"]
                     ELSE down)
        /\ UNCHANGED <<sessionVars, roleVars, notifications, placement, routePlan, viewer>>

\* client.onStompError
onStompError ==
    LET c == Begin(channel, "onStompError")
        down == [c EXCEPT !.isConnected = FALSE, !.connectionError = "STOMP protocol error"]
    IN  /\ channel.client.state \in {"connecting", "connected"}
        /\ ~channel.failing.pending
        /\ channel' = Rendered(c, IF CanRetry(c, c.client.attempts)
                                  THEN Retry(down, c.client.attempts) ELSE down)
        /\ UNCHANGED <<sessionVars, roleVars, notifications, placement, routePlan, viewer>>

\* client.onWebSocketError
onWebSocketError ==
    LET c == Begin(channel, "onWebSocketError")
        down == [c EXCEPT !.isConnected = FALSE,
                          !.connectionError = "WebSocket connection failed"]
    IN  /\ channel.client.state \in {"connecting", "connected"}
        /\ ~channel.failing.pending
        /\ channel' = Rendered(c,
                IF CanRetry(c, c.client.attempts)
                THEN [Retry(down, c.client.attempts) EXCEPT !.failing =
                            [pending |-> TRUE, attempts |-> c.client.attempts]]
                ELSE down)
        /\ UNCHANGED <<sessionVars, roleVars, notifications, placement, routePlan, viewer>>

\* client.onWebSocketClose; normal is event.code === 1000
onWebSocketClose(normal) ==
    LET c == Begin(channel, "onWebSocketClose")
        down == [c EXCEPT !.isConnected = FALSE, !.client.state = "closed",
                          !.requestTimeouts = Disconnected(@)]
    IN  /\ channel.client.state \in {"connecting", "connected"}
        /\ ~channel.failing.pending
        /\ channel' = Rendered(c, IF ~normal /\ CanRetry(c, c.client.attempts)
                                  THEN Retry(down, c.client.attempts) ELSE down)
        /\ UNCHANGED <<sessionVars, roleVars, notifications, placement, routePlan, viewer>>

OnWebSocketClose == \E normal \in BOOLEAN : onWebSocketClose(normal)

\* client.onWebSocketClose of the client whose socket failed: the close
\* event that follows the error event, its code not 1000
onWebSocketCloseAfterError ==
    LET c == Begin(channel, "onWebSocketCloseAfterError")
        down == [c EXCEPT !.isConnected = FALSE, !.failing = NoFailing]
    IN  /\ channel.failing.pending
        /\ channel' = Rendered(c, IF CanRetry(c, c.failing.attempts)
                                  THEN Retry(down, c.failing.attempts) ELSE down)
        /\ UNCHANGED <<sessionVars, roleVars, notifications, placement, routePlan, viewer>>

\* forceReconnect of the current render
forceReconnect ==
    LET c == Begin(channel, "forceReconnect")
        reset == [c EXCEPT !.reconnectAttempts = 0, !.connectionError = "null"]
    IN  /\ channel' = Rendered(c, connect(reset, c.enabled, c.reconnectAttempts))
        /\ UNCHANGED <<sessionVars, roleVars, notifications, placement, routePlan, viewer>>

\* a publish that does not look at the client
publishMutant(frame) ==
    /\ channel' = [Begin(channel, "publish") EXCEPT !.sent = <<frame>>]
    /\ UNCHANGED <<sessionVars, roleVars, notifications, placement, routePlan, viewer>>

\* sendNotification and broadcastSimulationUpdate: the frame is published
\* when clientRef.current is connected, and the failure logged otherwise
publish(frame) ==
    /\ channel' =
            [Begin(channel, "publish") EXCEPT !.sent =
                IF channel.client.state = "connected" THEN <<frame>> ELSE <<>>]
    /\ UNCHANGED <<sessionVars, roleVars, notifications, placement, routePlan, viewer>>

SendNotification == publish("notification")

BroadcastSimulationUpdate == \E frame \in {"simulation", "live-location"} : publish(frame)

InitChannel == Init /\ userType = "user"

NextChannel ==
    \/ Enable
    \/ ReconnectTimeout
    \/ onConnect
    \/ RequestStateTimeout
    \/ onDisconnect
    \/ onStompError
    \/ onWebSocketError
    \/ OnWebSocketClose
    \/ onWebSocketCloseAfterError
    \/ forceReconnect
    \/ SendNotification
    \/ BroadcastSimulationUpdate

SpecChannel == InitChannel /\ [][NextChannel]_vars

(***************************************************************************)
(* SpecInbox: the subscription callbacks of one session of the simulator   *)
(* page.  A body is what a frame carries: a text that is no JSON, the text *)
(* null, or the text of a message.  A function passed to setVehicles is    *)
(* called by React when it renders, after the callback has returned; a     *)
(* render that throws unmounts the page.                                   *)
(***************************************************************************)
\* message.body that JSON.parse refuses
Unparseable == [kind |-> "text"]

\* message.body "null"
NullBody == [kind |-> "null"]

\* message.body of a message
Body(message) == [kind |-> "message", message |-> message]

\* a coordinate sent as a string: true in a test, and without toFixed
TextCoordinate == [text |-> "100.0"]

IsText(x) == DOMAIN x = {"text"}

\* an entry of a position delta whose latitude is a string
EntryTextPosition(id) == [EntryMoving(id) EXCEPT !.currentLat = TextCoordinate]

\* the types of the messages that arrive without data
NoDataTypes ==
    {"SIMULATION_STARTED", "SIMULATION_STOPPED", "VEHICLE_UPDATE", "LIVE_POSITION_UPDATE",
     "LIVE_LOCATION_UPDATE", "SIMULATION_STATE"}

\* messages as a producer publishes them
InboxMessages ==
    {Message("SIMULATION_STARTED",
             [vehicles |-> <<SampleMoving, SampleDelayed>>, playbackSpeed2 |-> Num(10),
              isRunning |-> TRUE, isPaused |-> FALSE]),
     Message("SIMULATION_STOPPED", [isPaused |-> FALSE]),
     Message("VEHICLE_UPDATE",
             [vehicles |-> <<SampleMoving>>, stats |-> StatsOf(<<SampleMoving>>)]),
     Message("LIVE_POSITION_UPDATE", [vehicles |-> <<EntryMoving(1)>>, stats |-> NoStats])}

SimulationBodies ==
    {Unparseable, NullBody}
    \cup {Body(Message(t, Undefined)) : t \in NoDataTypes}
    \cup {Body(Message("LIVE_POSITION_UPDATE",
                       [vehicles |-> <<EntryTextPosition(1)>>, stats |-> NoStats]))}
    \cup {Body(message) : message \in InboxMessages}

SimulationTopics == {"/topic/simulation", "/topic/live-locations"}

\* a notification of the backend
SampleNotification == [title |-> "Simulation Started", type |-> "SUCCESS"]

\* JSON.parse("null")
Null == [null |-> TRUE]

NotificationBodies == {Unparseable, NullBody, Body(SampleNotification)}

\* the page is mounted: no render has thrown
Mounted == lastOp.op # "renderError"

\* the callback of /topic/live-locations reads locationUpdate.data.vehicles
\* of a LIVE_LOCATION_UPDATE before it calls the handler
CallbackThrows(topic, message) ==
    /\ topic = "/topic/live-locations"
    /\ message.type = "LIVE_LOCATION_UPDATE"
    /\ message.data = Undefined

\* handleSimulationUpdate throws before it has set any state: the cases
\* that read message.data.vehicles or message.data.isRunning first
HandlerThrows(message) ==
    /\ message.data = Undefined
    /\ \/ message.type \in {"SIMULATION_STARTED", "SIMULATION_STATE"} /\ IsViewer
       \/ /\ message.type \in {"VEHICLE_UPDATE", "LIVE_POSITION_UPDATE",
                                "LIVE_LOCATION_UPDATE"}
          /\ HandlerReceiving

\* the function that case LIVE_POSITION_UPDATE passes to setVehicles throws:
\* positionUpdate.currentLat.toFixed(4) of an entry that the roster knows
\* and whose coordinates are true, one of them no number
UpdaterThrows(message) ==
    /\ message.type = "LIVE_POSITION_UPDATE"
    /\ HandlerReceiving
    /\ \E k \in DOMAIN message.data.vehicles :
            LET positionUpdate == message.data.vehicles[k]
                TrueValue(x) == IsText(x) \/ Truthy(x)
            IN  /\ ExistingVehicle(vehicles, positionUpdate.id) # Undefined
                /\ TrueValue(positionUpdate.currentLat)
                /\ TrueValue(positionUpdate.currentLng)
                /\ IsText(positionUpdate.currentLat) \/ IsText(positionUpdate.currentLng)

\* a callback that ends in its catch (name tells where it threw), or a
\* render that throws: no state of the page is set
Failed(name) ==
    /\ lastOp' = Op(name, "none")
    /\ outbox' = <<>>
    /\ UNCHANGED <<userType, vehicles, isSimulationRunning, isPaused, playbackSpeed2,
                   simulationStats, isReceivingSimulation, simulationInterval, now,
                   wsConnected, handlerReceiving, roleVars, channel, notifications, placement, routePlan, viewer>>

\* the subscription callbacks of /topic/simulation and /topic/live-locations
onSimulationMessage(topic, body) ==
    /\ Mounted
    /\ wsConnected
    /\ IF body.kind = "text" THEN Failed("parseError")
       ELSE IF body.kind = "null" THEN Failed("handlerError")
       ELSE IF CallbackThrows(topic, body.message) \/ HandlerThrows(body.message)
            THEN Failed("handlerError")
       ELSE IF UpdaterThrows(body.message) THEN Failed("renderError")
       ELSE handleSimulationUpdate(body.message)

\* the notification list after the body "null": the list is set, and then
\* toast reads message.title
OnNullNotification(list) == Append(list, Null)

\* the subscription callback of /topic/notifications and onNotification of
\* the page
onNotificationMessage(body) ==
    /\ Mounted
    /\ wsConnected
    /\ Len(notifications) < MaxNotifications
    /\ notifications' =
            CASE body.kind = "text" -> notifications
              [] body.kind = "null" -> OnNullNotification(notifications)
              [] OTHER -> Append(notifications, body.message)
    /\ lastOp' =
            CASE body.kind = "text" -> Op("parseError", "none")
              [] body.kind = "null" -> Op("handlerError", "none")
              [] OTHER -> Op("onNotification", "none")
    /\ outbox' = <<>>
    /\ UNCHANGED <<userType, vehicles, isSimulationRunning, isPaused, playbackSpeed2,
                   simulationStats, isReceivingSimulation, simulationInterval, now,
                   wsConnected, handlerReceiving, roleVars, channel, placement, routePlan, viewer>>

dismissAllNotifications ==
    /\ Mounted
    /\ notifications # <<>>
    /\ notifications' = <<>>
    /\ lastOp' = Op("dismissAllNotifications", "none")
    /\ outbox' = <<>>
    /\ UNCHANGED <<userType, vehicles, isSimulationRunning, isPaused, playbackSpeed2,
                   simulationStats, isReceivingSimulation, simulationInterval, now,
                   wsConnected, handlerReceiving, roleVars, channel, placement, routePlan, viewer>>

ReceiveSimulation ==
    \E topic \in SimulationTopics, body \in SimulationBodies : onSimulationMessage(topic, body)

ReceiveNotification == \E body \in NotificationBodies : onNotificationMessage(body)

InboxConnect == Mounted /\ ChannelConnect

InboxReconnect == Mounted /\ ChannelReconnect

NextInbox ==
    \/ InboxConnect
    \/ InboxReconnect
    \/ ReceiveSimulation
    \/ ReceiveNotification
    \/ dismissAllNotifications

SpecInbox == Init /\ [][NextInbox]_vars

(***************************************************************************)
(* SpecPlace: the placement form of a producer.  placeVehicle tests the    *)
(* roster of the render it was called in, awaits the vehicle of the        *)
(* backend, and appends it to the roster of the moment the answer comes.   *)
(***************************************************************************)
\* the most vehicles placeVehicle admits
MaxVehicles == 10

\* the waypoints an admin clicks: the source, then the source again or the
\* destination
ClickedWaypoints == {1, 2}

\* the ids an admin types: that of the first vehicle, or the next one
TypedVehicleIds == {1, Len(vehicles) + 1}

\* a step of the form
PlaceStep(name) ==
    /\ lastOp' = Op(name, "none")
    /\ outbox' = <<>>
    /\ UNCHANGED <<userType, isSimulationRunning, isPaused, playbackSpeed2,
                   isReceivingSimulation, simulationInterval, now, wsConnected,
                   handlerReceiving, roleVars, channel, notifications, routePlan, viewer>>

\* onChange of the vehicle id input
setVehicleIdInput(vehicleId) ==
    /\ IsAdmin
    /\ placement.vehicleIdInput # vehicleId
    /\ placement' = [placement EXCEPT !.vehicleIdInput = vehicleId]
    /\ PlaceStep("form")
    /\ UNCHANGED <<vehicles, simulationStats>>

handleWaypointSelect(waypointId) ==
    /\ IsAdmin
    /\ placement' =
            IF placement.selectionMode = "source"
            THEN [placement EXCEPT !.selectedSourceWaypoint = waypointId,
                                   !.selectionMode = "destination"]
            ELSE IF waypointId = placement.selectedSourceWaypoint THEN placement
            ELSE [placement EXCEPT !.selectedDestinationWaypoint = waypointId]
    /\ PlaceStep("form")
    /\ UNCHANGED <<vehicles, simulationStats>>

\* the roster with one vehicle more counted as full
AtCapacityMutant(roster) == Len(roster) > MaxVehicles

\* vehicles.length >= 10
AtCapacity(roster) == Len(roster) >= MaxVehicles

\* vehicles.find((v) => v.id === Number.parseInt(vehicleIdInput))
AlreadyPlaced(roster, vehicleId) == \E i \in DOMAIN roster : roster[i].id = vehicleId

\* placeVehicle up to its await: the tests on the form and the roster of the
\* render, and the request of the vehicle
placeVehicleCall ==
    LET form == placement
        rejected ==
            \/ form.selectedSourceWaypoint = 0
            \/ form.selectedDestinationWaypoint = 0
            \/ form.vehicleIdInput = 0
            \/ AtCapacity(vehicles)
            \/ AlreadyPlaced(vehicles, form.vehicleIdInput)
    IN  /\ IsAdmin
        /\ Len(placement.fetches) < MaxPendingFetches
        /\ placement' =
                IF rejected THEN placement
                ELSE [placement EXCEPT !.fetches =
                        Append(@, [vehicleId |-> form.vehicleIdInput,
                                   selectedSourceWaypoint |-> form.selectedSourceWaypoint,
                                   selectedDestinationWaypoint |->
                                        form.selectedDestinationWaypoint,
                                   selectedVehicleSpeed |-> form.selectedVehicleSpeed,
                                   selectedInitialDelay |-> form.selectedInitialDelay])]
        /\ PlaceStep(IF rejected THEN "placeVehicleRejected" ELSE "placeVehicleCall")
        /\ UNCHANGED <<vehicles, simulationStats>>

\* placeVehicle from its await on, for the call that asked first: without a
\* vehicle it returns; with one it appends the vehicle to the roster of the
\* moment, shows it at its source and resets the form
placeVehicleAnswered(found) ==
    LET call == Head(placement.fetches)
        vehicleWithPath ==
            PlacedVehicle(call.vehicleId, call.selectedSourceWaypoint,
                          call.selectedDestinationWaypoint, call.selectedVehicleSpeed,
                          call.selectedInitialDelay)
    IN  /\ placement.fetches # <<>>
        /\ IF found
           THEN /\ vehicles' = Append(vehicles, vehicleWithPath)
                /\ simulationStats' = StatsOf(vehicles')
                /\ placement' =
                        [placement EXCEPT
                            !.fetches = Tail(@),
                            !.waypointVehicle[call.selectedSourceWaypoint] = call.vehicleId,
                            !.vehicleIdInput = 0,
                            !.selectedInitialDelay = 0,
                            !.selectedSourceWaypoint = 0,
                            !.selectedDestinationWaypoint = 0,
                            !.selectionMode = "source"]
           ELSE /\ placement' = [placement EXCEPT !.fetches = Tail(@)]
                /\ UNCHANGED <<vehicles, simulationStats>>
        /\ PlaceStep(IF found THEN "placeVehicleAnswered" ELSE "placeVehicleNotFound")

SetVehicleIdInput ==
    \E vehicleId \in TypedVehicleIds :
        \* the admin selects the route and then types the id
        /\ placement.selectedDestinationWaypoint # 0
        /\ setVehicleIdInput(vehicleId)

HandleWaypointSelect ==
    \E waypointId \in ClickedWaypoints :
        \* the source once, then the destination
        /\ placement.selectionMode = "source" => waypointId = 1
        /\ placement.selectedDestinationWaypoint = 0
        /\ handleWaypointSelect(waypointId)

PlaceVehicleAnswered == \E found \in BOOLEAN : placeVehicleAnswered(found)

InitPlace == Init /\ userType = "admin"

NextPlace ==
    \/ SetVehicleIdInput
    \/ HandleWaypointSelect
    \/ placeVehicleCall
    \/ PlaceVehicleAnswered

SpecPlace == InitPlace /\ [][NextPlace]_vars

(***************************************************************************)
(* SpecJourney: the run of an admin whose roster holds one vehicle, over   *)
(* the routes a roster can hold: between two waypoints apart, between two  *)
(* waypoints at the same coordinates (Lok Virsa Museum and Shakarparian),  *)
(* and the single point of a record with one waypoint.                     *)
(***************************************************************************)
\* speeds (km/h) of the speed input and of a record
JourneySpeeds == {18, 36}

\* the routes placeVehicle accepts: 10 m, and 0 m
JourneyRoutes == {<<1, 2>>, <<2, 3>>}

\* a record of one waypoint: loadSimulationRecord gives its vehicle the
\* path of that one point
SinglePointRecords ==
    { [waypoints |-> << [latitude |-> 100, longitude |-> 100] >>,
       vehicles |-> << [vehicle_id |-> 1, speed |-> speed, initialDelay |-> 0] >>] :
        speed \in JourneySpeeds }

\* the rosters of one vehicle, placed or loaded
JourneyRosters ==
    { <<PlacedVehicle(1, route[1], route[2], speed, initialDelay)>> :
        route \in JourneyRoutes, speed \in JourneySpeeds, initialDelay \in InitialDelays }
    \cup { <<LoadedVehicle(record.vehicles[1], MatchedWaypoints(record.waypoints))>> :
            record \in SinglePointRecords }

\* a connected admin after placeVehicle or loadSimulationRecord
InitJourney ==
    /\ userType = "admin"
    /\ vehicles \in JourneyRosters
    /\ isSimulationRunning = FALSE
    /\ isPaused = FALSE
    /\ playbackSpeed2 = 2
    /\ simulationStats = StatsOf(vehicles)
    /\ isReceivingSimulation = FALSE
    /\ simulationInterval = NoInterval
    /\ now = StartOfTime
    /\ wsConnected = TRUE
    /\ handlerReceiving = FALSE
    /\ outbox = <<>>
    /\ lastOp = Op("init", "none")
    /\ storedUserType = [s \in Sessions |-> "none"]
    /\ sessionUserType = [s \in Sessions |-> "none"]
    /\ channel = NoChannel
    /\ notifications = <<>>
    /\ placement = NoPlacement
    /\ routePlan = NoRoute
    /\ viewer = NoViewer

NextJourney ==
    \/ AdvanceTime
    \/ StartSimulation
    \/ PauseSimulation
    \/ ResumeSimulation
    \/ StopSimulation
    \/ ChangePlaybackSpeed
    \/ Tick

SpecJourney == InitJourney /\ [][NextJourney]_vars

(***************************************************************************)
(* SpecRoute: calculateOptimalPath and getPositionAlongPath as functions,  *)
(* over routes long enough to have intermediate waypoints.                 *)
(***************************************************************************)
\* a waypoints state on a grid of 1000 m: waypoints along one road, two of
\* them at the same distance from the first, one far from the road, and two
\* at the coordinates of another (as Lok Virsa Museum and Shakarparian are)
RouteWaypoints ==
    << [id |-> 1, lat |-> 1000, lng |-> 1000],
       [id |-> 2, lat |-> 3000, lng |-> 1000],
       [id |-> 3, lat |-> 5000, lng |-> 4000],
       [id |-> 4, lat |-> 6000, lng |-> 1000],
       [id |-> 5, lat |-> 9000, lng |-> 1000],
       [id |-> 6, lat |-> 11000, lng |-> 1000],
       [id |-> 7, lat |-> 1000, lng |-> 1000],
       [id |-> 8, lat |-> 1000, lng |-> 7000] >>

RouteWaypointById(id) ==
    RouteWaypoints[CHOOSE i \in DOMAIN RouteWaypoints : RouteWaypoints[i].id = id]

\* the progress values a position is asked for
ProgressValues == {Num(0), Frac(1, 10), Frac(1, 2), Frac(9, 10), Num(1)}

\* positions asked for one route
MaxPositions == 2

\* the loop of getPositionAlongPath: the first segment whose end is at or
\* beyond totalDistance * progress (from 1), or 0 when the loop finds none
SegmentIndex(path, progress) ==
    LET targetDistance == NumMul(Num(calculatePathDistance(path)), progress)
        hits == {i \in 1..(Len(path) - 1) :
                    NumLeq(targetDistance, Num(PathDistanceUpTo(path, i + 1)))}
    IN  IF hits = {} THEN 0 ELSE CHOOSE k \in hits : \A j \in hits : k <= j

\* calculateOptimalPath(sourceWaypoint, destinationWaypoint) for the route
\* asked for
ComposeRoute ==
    LET sourceWaypoint == RouteWaypointById(routePlan.source)
        destinationWaypoint == RouteWaypointById(routePlan.destination)
        nearbyWaypoints ==
            SelectSeq(routePlan.waypoints,
                      LAMBDA w : w.id # sourceWaypoint.id /\ w.id # destinationWaypoint.id)
    IN  /\ routePlan.smoothPath = <<>>
        /\ routePlan' =
                [routePlan EXCEPT
                    !.pathWaypoints =
                        findPathWaypoints(sourceWaypoint, destinationWaypoint, nearbyWaypoints),
                    !.smoothPath =
                        OptimalPath(routePlan.waypoints, sourceWaypoint, destinationWaypoint)]
        /\ UNCHANGED <<sessionVars, roleVars, channel, notifications, placement, viewer>>

\* getPositionAlongPath(path, progress) for the path composed
Locate(progress) ==
    /\ routePlan.smoothPath # <<>>
    /\ Len(routePlan.positions) < MaxPositions
    /\ routePlan' =
            [routePlan EXCEPT
                !.progress = Append(@, progress),
                !.positions = Append(@, getPositionAlongPath(routePlan.smoothPath, progress))]
    /\ UNCHANGED <<sessionVars, roleVars, channel, notifications, placement, viewer>>

LocateAlongPath == \E progress \in ProgressValues : Locate(progress)

\* a page whose waypoints are set, and a route between two of them
InitRoute ==
    /\ userType = "admin"
    /\ vehicles = <<>>
    /\ isSimulationRunning = FALSE
    /\ isPaused = FALSE
    /\ playbackSpeed2 = 2
    /\ simulationStats = NoStats
    /\ isReceivingSimulation = FALSE
    /\ simulationInterval = NoInterval
    /\ now = StartOfTime
    /\ wsConnected = FALSE
    /\ handlerReceiving = FALSE
    /\ outbox = <<>>
    /\ lastOp = Op("init", "none")
    /\ storedUserType = [s \in Sessions |-> "none"]
    /\ sessionUserType = [s \in Sessions |-> "none"]
    /\ channel = NoChannel
    /\ notifications = <<>>
    /\ placement = NoPlacement
    /\ viewer = NoViewer
    /\ \E source, destination \in DOMAIN RouteWaypoints :
            /\ source # destination
            /\ routePlan = [NoRoute EXCEPT !.waypoints = RouteWaypoints,
                                           !.source = RouteWaypoints[source].id,
                                           !.destination = RouteWaypoints[destination].id]

NextRoute ==
    \/ ComposeRoute
    \/ LocateAlongPath

SpecRoute == InitRoute /\ [][NextRoute]_vars

(***************************************************************************)
(* Properties.                                                             *)
(***************************************************************************)
\* the step handles a message
HandlerStep ==
    /\ lastOp'.op = "handleSimulationUpdate"
    /\ \E message \in Messages : handleSimulationUpdate(message)

\* the step is a call of one of the producer's operations
ProducerOpStep ==
    \/ \E vehicleId \in VehicleIds, route \in Routes, speed \in Speeds,
          initialDelay \in InitialDelays :
            placeVehicle(vehicleId, route[1], route[2], speed, initialDelay)
    \/ \E fuelLevel \in FuelLevels : startSimulation(fuelLevel)
    \/ pauseSimulation
    \/ resumeSimulation
    \/ stopSimulation
    \/ \E speed2 \in PlaybackSpeeds2 : changePlaybackSpeed(speed2)

\* C1: at most one session holds the admin role and every other session is
\* a viewer, whatever the logins were (SpecRole).
C1_AtMostOneAdmin ==
    Cardinality({s \in Sessions : sessionUserType[s] = "admin"}) <= 1

\* C2: the role of a session never changes; in an admin session a handled
\* message of any kind leaves the roster, the running and paused flags, the
\* multiplier and the statistics as they were; in a viewer session no tick
\* runs and every change of the roster is made by handleSimulationUpdate; so
\* a tick writes the roster in admin sessions only and the handler in viewer
\* sessions only.
C2_RosterWriters ==
    [][ /\ userType' = userType
        /\ (userType = "admin" /\ HandlerStep) =>
                UNCHANGED <<vehicles, isSimulationRunning, isPaused, playbackSpeed2,
                            simulationStats>>
        /\ userType = "user" => ~Tick
        /\ (userType = "user" /\ vehicles' # vehicles) => HandlerStep
        /\ lastOp'.writer = "tick" => userType = "admin"
        /\ lastOp'.writer = "reconciler" => userType = "user" ]_vars

\* an admin session with a running simulation has handled a message
C2_Witness ==
    /\ userType = "admin"
    /\ lastOp.op = "handleSimulationUpdate"
    /\ isSimulationRunning
    /\ Len(vehicles) > 0

\* C3: in a session whose role is not admin, startSimulation,
\* pauseSimulation, resumeSimulation, stopSimulation, changePlaybackSpeed and
\* placeVehicle leave the roster, the running and paused flags, the
\* multiplier and the scheduler as they were and publish nothing.
C3_ViewerOpsReturn ==
    [][ (userType # "admin" /\ ProducerOpStep) =>
            /\ UNCHANGED <<vehicles, isSimulationRunning, isPaused, playbackSpeed2,
                           simulationInterval, simulationStats>>
            /\ outbox' = <<>> ]_vars

\* a viewer that mirrors a running simulation has called a producer's
\* operation
C3_Witness ==
    /\ userType = "user"
    /\ lastOp.op = "accessDenied"
    /\ isSimulationRunning
    /\ Len(vehicles) > 0

\* the step is a tick of the producer's scheduler
TickStep == lastOp'.op = "tick" /\ Tick

\* the step is a call of startSimulation
StartStep ==
    /\ lastOp'.op = "startSimulation"
    /\ \E fuelLevel \in FuelLevels : startSimulation(fuelLevel)

\* the state of a vehicle: 0 IDLE, 1 DELAYED, 2 MOVING, 3 STOPPED
Phase(v) ==
    IF v.status = "stopped" THEN 3
    ELSE IF v.status = "moving" THEN 2
    ELSE IF HasSim(v) /\ v.simulationData.isDelayed THEN 1
    ELSE 0

\* C4: while a run lasts on the producer, no step moves a vehicle to an
\* earlier state of IDLE, DELAYED, MOVING, STOPPED or past the next one, and
\* a tick leaves a STOPPED vehicle as it was.
C4_StateForward ==
    [][ (IsAdmin /\ isSimulationRunning /\ isSimulationRunning') =>
            \A i \in DOMAIN vehicles :
                /\ i \in DOMAIN vehicles'
                /\ Phase(vehicles'[i]) >= Phase(vehicles[i])
                /\ Phase(vehicles'[i]) <= Phase(vehicles[i]) + 1
                /\ (TickStep /\ vehicles[i].status = "stopped") =>
                        vehicles'[i] = vehicles[i] ]_vars

\* a tick has run over a vehicle that stopped at an earlier tick
C4_Witness ==
    /\ IsAdmin
    /\ lastOp.op = "tick"
    /\ \E i \in DOMAIN vehicles :
        /\ vehicles[i].status = "stopped"
        /\ vehicles[i].simulationData.timestamp.n < now

\* C5: startSimulation puts every vehicle with a path at progress 0 on the
\* first point of its path, with no distance travelled: one with
\* initialDelay > 0 DELAYED with delayStartTime the time of the call, one
\* with initialDelay 0 MOVING with startTime the time of the call.
C5_StartInitialises ==
    [][ (IsAdmin /\ StartStep) =>
            \A i \in DOMAIN vehicles :
                LET v == vehicles[i]
                    new == vehicles'[i]
                    sim == new.simulationData
                IN  Len(v.plannedPath) > 0 =>
                        /\ HasSim(new)
                        /\ v.initialDelay > 0 =>
                                /\ Phase(new) = 1
                                /\ sim.status = "delayed"
                                /\ sim.delayStartTime = Num(now)
                        /\ v.initialDelay = 0 =>
                                /\ Phase(new) = 2
                                /\ sim.status = "moving"
                                /\ sim.startTime = Num(now)
                        /\ sim.progress = Num(0)
                        /\ sim.distanceTravelled = Num(0)
                        /\ sim.currentLat = Num(v.plannedPath[1].lat)
                        /\ sim.currentLng = Num(v.plannedPath[1].lng) ]_vars

\* a run has just started with a delayed vehicle and an undelayed one
C5_Witness ==
    /\ IsAdmin
    /\ lastOp.op = "startSimulation"
    /\ \E i, j \in DOMAIN vehicles :
        /\ vehicles[i].initialDelay > 0 /\ Phase(vehicles[i]) = 1
        /\ vehicles[j].initialDelay = 0 /\ Phase(vehicles[j]) = 2

\* the whole seconds that cover ms milliseconds
CeilSeconds(ms) == CHOOSE k \in 0..(ms + 1) : (k - 1) * 1000 < ms /\ ms <= k * 1000

\* C6: a tick at a time less than initialDelay seconds after delayStartTime
\* leaves a DELAYED vehicle DELAYED, its label showing the remaining seconds
\* rounded up; a tick at a later time makes it MOVING with startTime the
\* time of the tick; and no vehicle with a delay is MOVING earlier than
\* initialDelay seconds after the start of its run, whatever pauses,
\* resumptions and changes of speed came between.
C6_DelayHonoured ==
    [][ IsAdmin =>
          /\ TickStep =>
                \A i \in DOMAIN vehicles :
                    LET v == vehicles[i]
                        new == vehicles'[i]
                        delayElapsed == now - v.simulationData.delayStartTime.n
                        delayDuration == v.initialDelay * 1000
                    IN  Phase(v) = 1 =>
                            IF delayElapsed < delayDuration
                            THEN /\ Phase(new) = 1
                                 /\ new.simulationData.status =
                                        "delayed ("
                                        \o ToString(CeilSeconds(delayDuration - delayElapsed))
                                        \o "s)"
                            ELSE /\ Phase(new) = 2
                                 /\ new.simulationData.startTime = Num(now)
          /\ \A i \in DOMAIN vehicles' :
                LET new == vehicles'[i]
                IN  (Phase(new) = 2 /\ new.initialDelay > 0) =>
                        now' >= new.simulationData.delayStartTime.n + new.initialDelay * 1000
       ]_vars

\* a tick has just ended the delay of a vehicle
C6_Witness ==
    /\ IsAdmin
    /\ lastOp.op = "tick"
    /\ \E i \in DOMAIN vehicles :
        /\ vehicles[i].initialDelay > 0
        /\ Phase(vehicles[i]) = 2
        /\ vehicles[i].simulationData.startTime = Num(now)

\* C7: from one tick to the next the progress of a MOVING vehicle never
\* decreases, whatever pauses, resumptions and changes of speed came between.
C7_ProgressNeverDecreases ==
    [][ (IsAdmin /\ TickStep) =>
            \A i \in DOMAIN vehicles :
                (Phase(vehicles[i]) = 2 /\ HasSim(vehicles[i])) =>
                    NumLeq(vehicles[i].simulationData.progress,
                           vehicles'[i].simulationData.progress) ]_vars

\* C8: the tick in which the progress of a MOVING vehicle reaches 1 puts it
\* on the last point of its path, with currentWaypoint its targetWaypoint,
\* status STOPPED, progress 1 and distanceTravelled the length of the path.
C8_Arrival ==
    [][ (IsAdmin /\ TickStep) =>
            \A i \in DOMAIN vehicles :
                LET v == vehicles[i]
                    new == vehicles'[i]
                    sim == new.simulationData
                    finalPoint == v.plannedPath[Len(v.plannedPath)]
                IN  (Phase(v) = 2 /\ HasSim(v)
                     /\ (sim.progress = Num(1) \/ Phase(new) = 3)) =>
                        /\ Phase(new) = 3
                        /\ new.currentWaypoint = v.targetWaypoint
                        /\ sim.progress = Num(1)
                        /\ sim.currentLat = Num(finalPoint.lat)
                        /\ sim.currentLng = Num(finalPoint.lng)
                        /\ sim.distanceTravelled = Num(calculatePathDistance(v.plannedPath))
      ]_vars

\* a vehicle has arrived in the tick just run
C8_Witness ==
    /\ IsAdmin
    /\ lastOp.op = "tick"
    /\ \E i \in DOMAIN vehicles :
        /\ Phase(vehicles[i]) = 3
        /\ vehicles[i].simulationData.timestamp = Num(now)
        /\ vehicles[i].simulationData.progress = Num(1)

\* the step is a viewer applying the position delta with the entries
DeltaStep(entries) ==
    /\ lastOp'.type = "LIVE_POSITION_UPDATE"
    /\ handleSimulationUpdate(
            Message("LIVE_POSITION_UPDATE", [vehicles |-> entries, stats |-> NoStats]))

\* C9: when a viewer applies a position delta, an entry for an id the roster
\* holds overwrites that vehicle's position, heading, progress,
\* distanceTravelled, status and timestamp with every value the entry
\* carries (a heading of 0 and a progress of 0 too), and the vehicle keeps
\* its plannedPath, currentWaypoint, targetWaypoint, model, brand, type,
\* speed and initialDelay.
C9_DeltaOverwrites ==
    [][ \A entries \in PositionLists :
            DeltaStep(entries) =>
                \A k \in DOMAIN entries :
                    LET e == entries[k]
                        old == ExistingVehicle(vehicles, e.id)
                        new == ExistingVehicle(vehicles', e.id)
                        sim == new.simulationData
                    IN  old # Undefined =>
                            /\ new # Undefined
                            /\ HasSim(new)
                            /\ e.currentLat # Undefined => sim.currentLat = e.currentLat
                            /\ e.currentLng # Undefined => sim.currentLng = e.currentLng
                            /\ e.heading # Undefined => sim.heading = e.heading
                            /\ e.progress # Undefined => sim.progress = e.progress
                            /\ e.distanceTravelled # Undefined =>
                                    sim.distanceTravelled = e.distanceTravelled
                            /\ e.status # UndefStr => new.status = e.status
                            /\ e.timestamp # Undefined => sim.timestamp = e.timestamp
                            /\ new.plannedPath = old.plannedPath
                            /\ new.currentWaypoint = old.currentWaypoint
                            /\ new.targetWaypoint = old.targetWaypoint
                            /\ new.model = old.model
                            /\ new.brand = old.brand
                            /\ new.type = old.type
                            /\ new.speed = old.speed
                            /\ new.initialDelay = old.initialDelay ]_vars

\* the entry carries a position
HasPosition(e) == IsNum(e.currentLat) /\ IsNum(e.currentLng)

\* C10: when a viewer applies a position delta, an entry for an id the
\* roster does not hold adds one placeholder vehicle if it carries a
\* position (that id, that position, model, brand and type unknown, an empty
\* plannedPath), and otherwise adds nothing: the roster then holds no
\* vehicle of that id.
C10_UnknownIds ==
    [][ \A entries \in PositionLists :
            DeltaStep(entries) =>
                \A k \in DOMAIN entries :
                    LET e == entries[k]
                        added == {i \in DOMAIN vehicles' : vehicles'[i].id = e.id}
                    IN  ExistingVehicle(vehicles, e.id) = Undefined =>
                            IF HasPosition(e)
                            THEN /\ Cardinality(added) = 1
                                 /\ \A i \in added :
                                        /\ vehicles'[i].simulationData.currentLat = e.currentLat
                                        /\ vehicles'[i].simulationData.currentLng = e.currentLng
                                        /\ vehicles'[i].model = "Unknown Model"
                                        /\ vehicles'[i].brand = "Unknown Brand"
                                        /\ vehicles'[i].type = "Unknown Type"
                                        /\ vehicles'[i].plannedPath = <<>>
                            ELSE added = {} ]_vars

\* a viewer has applied a position delta that added a placeholder
C10_Witness ==
    /\ userType = "user"
    /\ lastOp.type = "LIVE_POSITION_UPDATE"
    /\ \E i \in DOMAIN vehicles :
        /\ vehicles[i].model = "Unknown Model"
        /\ vehicles[i].plannedPath = <<>>

\* C11: a viewer that handles SIMULATION_STARTED has the vehicles of the
\* message as its whole roster (nothing of the roster it had is kept), the
\* multiplier the message carries, and is running, not paused and
\* receiving.
C11_StartedReplaces ==
    [][ \A message \in Messages :
            ( /\ IsViewer
              /\ message.type = "SIMULATION_STARTED"
              /\ lastOp'.type = "SIMULATION_STARTED"
              /\ handleSimulationUpdate(message) )
            => /\ vehicles' = message.data.vehicles
               /\ message.data.playbackSpeed2 # Undefined =>
                        Num(playbackSpeed2') = message.data.playbackSpeed2
               /\ isSimulationRunning'
               /\ ~isPaused'
               /\ isReceivingSimulation' ]_vars

\* a viewer has handled a SIMULATION_STARTED of two vehicles at 5x
C11_Witness ==
    /\ IsViewer
    /\ lastOp.type = "SIMULATION_STARTED"
    /\ vehicles = <<SampleMoving, SampleDelayed>>
    /\ playbackSpeed2 = 10
    /\ isSimulationRunning /\ ~isPaused /\ isReceivingSimulation

\* C12: a viewer that handles a SIMULATION_STATE of a running simulation
\* has the roster, the paused flag, the multiplier and the statistics of the
\* snapshot and is receiving; and the position delta that reaches it next is
\* applied to its roster.
C12_SnapshotResyncs ==
    [][ \A message \in Messages :
            /\ ( /\ IsViewer
                 /\ message.type = "SIMULATION_STATE"
                 /\ lastOp'.type = "SIMULATION_STATE"
                 /\ handleSimulationUpdate(message) )
               => /\ vehicles' = message.data.vehicles
                  /\ isPaused' = message.data.isPaused
                  /\ Num(playbackSpeed2') = message.data.playbackSpeed2
                  /\ simulationStats' = message.data.stats
                  /\ isReceivingSimulation'
            /\ ( /\ IsViewer
                 /\ lastOp.type = "SIMULATION_STATE"
                 /\ isReceivingSimulation
                 /\ wsConnected
                 /\ message.type = "LIVE_POSITION_UPDATE"
                 /\ handleSimulationUpdate(message) )
               => vehicles' = MergePositionUpdates(vehicles, message.data.vehicles, now)
      ]_vars

\* C13: after a run is stopped every vehicle of the roster is idle and has
\* no kinematics (no simulationData): on the producer after stopSimulation,
\* on a viewer after it handled SIMULATION_STOPPED.
C13_StoppedIdle ==
    (lastOp.op = "stopSimulation" \/ lastOp.type = "SIMULATION_STOPPED") =>
        \A i \in DOMAIN vehicles :
            /\ vehicles[i].status = "idle"
            /\ ~HasSim(vehicles[i])

\* C14: from stopSimulation to the next startSimulation no tick fires, so
\* that the loop changes and publishes nothing; and stopSimulation leaves a
\* state that a second stopSimulation would leave as it is: the same roster,
\* flags and scheduler.
C14_StopCancels ==
    [][ /\ (IsAdmin /\ ~isSimulationRunning) => ~Tick
        /\ (IsAdmin /\ lastOp'.op = "stopSimulation" /\ stopSimulation) =>
                /\ StoppedVehicles(vehicles') = vehicles'
                /\ ~isSimulationRunning'
                /\ ~isPaused'
                /\ Cleared(simulationInterval') = simulationInterval' ]_vars

\* a run that has ticked was stopped
C14_Witness ==
    /\ IsAdmin
    /\ lastOp.op = "stopSimulation"
    /\ simulationInterval.ref /\ ~simulationInterval.live
    /\ \E i \in DOMAIN vehicles :
            HasSim(vehicles[i]) /\ Truthy(vehicles[i].simulationData.progress)

\* C15: in every state of a session at most one tick scheduler is live:
\* each operation that creates one (startSimulation, resumeSimulation,
\* changePlaybackSpeed and its effect) finds the one before it torn down,
\* whatever the calls of the producer's operations and of
\* loadSimulationRecord were.
C15_OneScheduler == Orphaned(simulationInterval) <= 1

C15_Witness ==
    /\ IsAdmin
    /\ lastOp.op = "changePlaybackSpeed"
    /\ simulationInterval.live
    /\ simulationInterval.loop = "restart"
    /\ now > StartOfTime

\* C16: while the producer's run is paused (from pauseSimulation to the
\* next resumeSimulation) no tick fires, so that the loop neither changes the
\* roster nor publishes; a tick scheduler is live only while the run is
\* running and not paused; and changePlaybackSpeed during a pause creates no
\* scheduler.
C16_PausedNoTick ==
    [][ /\ (IsAdmin /\ isPaused) => ~Tick
        /\ (IsAdmin /\ simulationInterval'.live) => (isSimulationRunning' /\ ~isPaused')
        /\ ( /\ IsAdmin /\ isPaused /\ ~simulationInterval.live
             /\ \E speed2 \in PlaybackSpeeds2 : changePlaybackSpeed(speed2) )
           => ~simulationInterval'.live ]_vars

\* C17: after 10 consecutive failed connection attempts (the counter of
\* attempts is 10) the channel has failed: no client is connecting and no
\* attempt is scheduled; the counter never exceeds 10; forceReconnect sets
\* the counter to 0 and starts a new attempt; a connection that succeeds
\* sets the counter to 0 (SpecChannel).
C17_FailedAfterMax ==
    [][ /\ channel'.reconnectAttempts <= maxReconnectAttempts
        /\ channel'.reconnectAttempts >= maxReconnectAttempts =>
                /\ ~channel'.reconnectTimeout.pending
                /\ channel'.client.state # "connecting"
        /\ (channel'.op = "forceReconnect" /\ forceReconnect /\ channel.enabled) =>
                /\ channel'.reconnectAttempts = 0
                /\ channel'.client.state = "connecting"
        /\ (channel'.op = "onConnect" /\ onConnect) => channel'.reconnectAttempts = 0
      ]_vars

\* the step tells the hook of a failure of its client
FailureStep ==
    \/ channel'.op = "onDisconnect" /\ onDisconnect
    \/ channel'.op = "onStompError" /\ onStompError
    \/ channel'.op = "onWebSocketError" /\ onWebSocketError
    \/ channel'.op = "onWebSocketClose" /\ onWebSocketClose(FALSE)

\* C18: a reconnect after n >= 1 consecutive failures waits
\* min(1000 * 2^n, 30000) ms; a failure raises n by exactly one, so the
\* close event of a socket whose error has been counted leaves n as it is;
\* from one failure to the next the wait grows until it is 30000 ms, which
\* it never exceeds; the first connection (n = 0) is made without waiting
\* (SpecChannel).
C18_Backoff ==
    [][ /\ channel'.reconnectTimeout.pending =>
                /\ channel'.reconnectAttempts >= 1
                /\ channel'.reconnectTimeout.delay =
                        Min(1000 * Pow2(channel'.reconnectAttempts), 30000)
                /\ channel'.reconnectTimeout.delay <= 30000
        /\ (FailureStep /\ channel.enabled
                /\ channel.reconnectAttempts < maxReconnectAttempts) =>
                /\ channel'.reconnectAttempts = channel.reconnectAttempts + 1
                /\ channel'.reconnectTimeout.pending
                /\ \/ channel'.reconnectTimeout.delay = 30000
                   \/ channel.reconnectAttempts = 0
                   \/ channel'.reconnectTimeout.delay >
                        Min(1000 * Pow2(channel.reconnectAttempts), 30000)
        /\ (channel'.op = "onWebSocketCloseAfterError" /\ onWebSocketCloseAfterError) =>
                channel'.reconnectAttempts = channel.reconnectAttempts
        /\ (channel'.op = "enable" /\ Enable) =>
                /\ ~channel'.reconnectTimeout.pending
                /\ channel'.client.state = "connecting"
      ]_vars

\* C19: connect() called while the channel is disabled, connecting or
\* connected does nothing: no client is created, none is torn down, no
\* timeout is set.  connect() is called by forceReconnect, and by the effect
\* that runs again after onConnect has reset the counter (SpecChannel).
C19_ConnectNoOp ==
    [][ /\ ( /\ channel'.op = "forceReconnect" /\ forceReconnect
             /\ \/ ~channel.enabled
                \/ channel.client.state \in {"connecting", "connected"} )
           => /\ channel'.created = 0
              /\ ~channel'.tornDown
              /\ channel'.client = channel.client
              /\ channel'.reconnectTimeout = channel.reconnectTimeout
        /\ (channel'.op = "onConnect" /\ onConnect)
           => /\ channel'.created = 0
              /\ ~channel'.tornDown
              /\ channel'.client.state = "connected"
              /\ ~channel'.reconnectTimeout.pending
      ]_vars

\* C20: a publish while the client is not connected sends nothing and
\* changes nothing of the channel; no later operation sends it, a
\* reconnection neither; a publish while connected sends its frame once
\* (SpecChannel).
C20_PublishAtMostOnce ==
    [][ /\ \A frame \in Frames :
            (channel'.op = "publish" /\ publish(frame)) =>
                /\ channel'.sent =
                        IF channel.client.state = "connected" THEN <<frame>> ELSE <<>>
                /\ channel'.client = channel.client
                /\ channel'.reconnectTimeout = channel.reconnectTimeout
                /\ channel'.reconnectAttempts = channel.reconnectAttempts
                /\ channel'.isConnected = channel.isConnected
                /\ channel'.connectionError = channel.connectionError
        /\ channel'.op # "publish" =>
                \A k \in DOMAIN channel'.sent : channel'.sent[k] \notin Frames
      ]_vars

\* a publish during a reconnection, the page still told that it is
\* connected
C20_Witness ==
    /\ channel.op = "publish"
    /\ channel.sent = <<>>
    /\ channel.client.state = "connecting"
    /\ channel.isConnected

\* C21: client.onConnect (of the first connection and of every reconnection)
\* subscribes its client to the three topics and sets one timeout of 500 ms;
\* it publishes no request itself.  The timeout's callback publishes one
\* request of the current state if the client is still connected, and
\* nothing otherwise; a client that gets the request published has its three
\* subscriptions.  No other operation publishes the request (SpecChannel).
C21_SubscribeThenRequest ==
    [][ /\ (channel'.op = "onConnect" /\ onConnect) =>
            LET timeouts == channel'.requestTimeouts
            IN  /\ channel'.sent = <<>>
                /\ Len(timeouts) = Len(channel.requestTimeouts) + 1
                /\ timeouts[Len(timeouts)].delay = 500
                /\ timeouts[Len(timeouts)].connected <=> channel'.client.state = "connected"
                /\ channel'.client.state = "connected" =>
                        channel'.client.subscriptions =
                            {"/topic/notifications", "/topic/simulation",
                             "/topic/live-locations"}
        /\ (channel'.op = "requestStateTimeout" /\ RequestStateTimeout) =>
            /\ channel'.requestTimeouts = Tail(channel.requestTimeouts)
            /\ channel'.client = channel.client
            /\ IF channel.client.state = "connected"
                    /\ Head(channel.requestTimeouts).connected
               THEN /\ channel'.sent = <<"request-state">>
                    /\ Cardinality(channel.client.subscriptions) = 3
               ELSE channel'.sent = <<>>
        /\ channel'.op # "requestStateTimeout" =>
                \A k \in DOMAIN channel'.sent : channel'.sent[k] # "request-state"
      ]_vars

\* the request published after a reconnection: the timeout of a client that
\* was deactivated has expired without a request, that of the client
\* connected now publishes it
C21_Witness ==
    /\ channel.op = "requestStateTimeout"
    /\ channel.sent = <<"request-state">>
    /\ channel.client.state = "connected"
    /\ channel.client.subscriptions = Topics
    /\ channel.requestTimeouts = <<>>

\* C22: a payload that cannot be parsed, or on which the handler fails, is
\* dropped: the step leaves the roster, the flags, the multiplier, the
\* statistics and the notification list as they were, and the page goes on
\* handling messages: it stays mounted and subscribed (SpecInbox).
C22_MalformedDropped ==
    [][ ( /\ lastOp'.op \in {"parseError", "handlerError", "renderError"}
          /\ ReceiveSimulation \/ ReceiveNotification )
        => /\ UNCHANGED <<vehicles, isSimulationRunning, isPaused, playbackSpeed2,
                          simulationStats, isReceivingSimulation, notifications, placement, routePlan, viewer>>
           /\ lastOp'.op # "renderError"
           /\ wsConnected'
      ]_vars

\* C23: a placeVehicle call made while the roster holds ten vehicles or more
\* is rejected: the roster, the statistics, the vehicles shown at the
\* waypoints, the selection and the inputs are as before, and no vehicle is
\* requested (no call is left waiting for an answer).
C23_FullRosterRejects ==
    [][ (placeVehicleCall /\ Len(vehicles) >= 10)
            => /\ UNCHANGED <<vehicles, simulationStats, placement, routePlan, viewer>>
               /\ lastOp'.op = "placeVehicleRejected"
               /\ outbox' = <<>>
      ]_vars

\* a complete form for a vehicle that is not in the roster was submitted
\* while the roster held ten vehicles
C23_Witness ==
    /\ lastOp.op = "placeVehicleRejected"
    /\ Len(vehicles) = 10
    /\ placement.vehicleIdInput # 0
    /\ placement.selectedSourceWaypoint # 0
    /\ placement.selectedDestinationWaypoint # 0
    /\ ~AlreadyPlaced(vehicles, placement.vehicleIdInput)

\* C24: no two entries of the roster have the same id, whichever calls of
\* placeVehicle overlapped while the vehicle was being fetched.
C24_UniqueIds ==
    \A i, j \in DOMAIN vehicles : vehicles[i].id = vehicles[j].id => i = j

\* C25: every vehicle of the roster that has a planned path has a path whose
\* first point is at the coordinates of its currentWaypoint and whose last
\* point is at the coordinates of its targetWaypoint.
C25_PathEndpoints ==
    \A i \in DOMAIN vehicles :
        LET v == vehicles[i]
            path == v.plannedPath
        IN  Len(path) > 0 =>
                /\ v.currentWaypoint \in WaypointIds
                /\ v.targetWaypoint \in WaypointIds
                /\ path[1].lat = WaypointById(v.currentWaypoint).lat
                /\ path[1].lng = WaypointById(v.currentWaypoint).lng
                /\ path[Len(path)].lat = WaypointById(v.targetWaypoint).lat
                /\ path[Len(path)].lng = WaypointById(v.targetWaypoint).lng

\* C26: the progress of every vehicle of a producer's roster that has
\* simulation data is a number from 0 to 1, whatever its path (a single
\* point and a route of no length included), its speed and the multiplier.
C26_ProgressDefined ==
    \A i \in DOMAIN vehicles :
        HasSim(vehicles[i]) =>
            LET progress == vehicles[i].simulationData.progress
            IN  /\ IsNum(progress)
                /\ NumLeq(Num(0), progress)
                /\ NumLeq(progress, Num(1))

\* a tick has moved a vehicle whose path has no length
C26_Witness ==
    /\ lastOp.op = "tick"
    /\ \E i \in DOMAIN vehicles :
            /\ HasSim(vehicles[i])
            /\ calculatePathDistance(vehicles[i].plannedPath) = 0
            /\ vehicles[i].status = "stopped"

\* C27: a tick at time now gives a moving vehicle with start time t, speed S,
\* path length D and multiplier m the progress
\* min((now - t) / (D * 3600 * 1000 / (S * m)), 1) and the distance
\* D * progress; the vehicle is stopped by the first tick with
\* now - t >= D * 3600 * 1000 / (S * m) and by none before it.  m is the
\* multiplier of the loop that ticks; with D in metres and twice the
\* multiplier the duration is D * 7200 / (S * 2m) ms.
C27_ProgressFormula ==
    [][ Tick =>
            \A i \in DOMAIN vehicles :
                LET v == vehicles[i]
                    after == vehicles'[i]
                    elapsed == now - v.simulationData.startTime.n
                    D == calculatePathDistance(v.plannedPath)
                    progress == after.simulationData.progress
                    distance == after.simulationData.distanceTravelled
                IN  (HasSim(v) /\ ~InDelay(v) /\ IsMoving(v)) =>
                        IF elapsed * v.speed * simulationInterval.speed2 >= D * 7200
                        THEN /\ after.status = "stopped"
                             /\ progress = Num(1)
                             /\ distance = Num(D)
                        ELSE /\ after.status = "moving"
                             /\ IsNum(progress)
                             /\ progress.n * (D * 7200)
                                    = progress.d * (elapsed * v.speed * simulationInterval.speed2)
                             /\ IsNum(distance)
                             /\ distance.n * progress.d = D * progress.n * distance.d
      ]_vars

\* at 36 km/h the 10 m route lasts 1000 ms at multiplier 1 and 200 ms at
\* multiplier 5: a tick 500 ms after the start has stopped the vehicle at
\* multiplier 5
C27_Witness ==
    /\ lastOp.op = "tick"
    /\ playbackSpeed2 = 10
    /\ \E i \in DOMAIN vehicles :
            /\ HasSim(vehicles[i])
            /\ vehicles[i].speed = 36
            /\ calculatePathDistance(vehicles[i].plannedPath) = 10
            /\ vehicles[i].status = "stopped"
            /\ now - vehicles[i].simulationData.startTime.n = 500

\* C28: whenever an interval is live, it is the only one, its period is
\* max(50, 200 / m) ms and its ticks compute with m, the multiplier of the
\* session; so it is after changePlaybackSpeed during a run that is not
\* paused and after resumeSimulation.  (400 / playbackSpeed2 is 200 / m.)
C28_LiveSchedulerMultiplier ==
    [][ simulationInterval'.live =>
            /\ simulationInterval'.speed2 = playbackSpeed2'
            /\ simulationInterval'.orphans = 0
            /\ simulationInterval'.due # simulationInterval.due =>
                    simulationInterval'.due = now' + Max(50, 400 \div playbackSpeed2')
      ]_vars

\* C29: when the loop is torn down and created again (changePlaybackSpeed
\* during a run that is not paused, resumeSimulation after
\* pauseSimulation), every vehicle keeps its start time and its progress:
\* the ticks of the new loop count the time from the start of the journey.
C29_StartTimeKept ==
    [][ ( /\ IsAdmin
          /\ \/ lastOp'.op = "resumeSimulation"
             \/ lastOp'.op = "changePlaybackSpeed" /\ isSimulationRunning /\ ~isPaused )
            => /\ simulationInterval'.live
               /\ simulationInterval'.loop = "restart"
               /\ \A i \in DOMAIN vehicles :
                    HasSim(vehicles[i]) =>
                        /\ vehicles'[i].simulationData.startTime
                                = vehicles[i].simulationData.startTime
                        /\ vehicles'[i].simulationData.progress
                                = vehicles[i].simulationData.progress
      ]_vars

\* a loop was created again 500 ms or more after a moving vehicle started
C29_Witness ==
    /\ IsAdmin
    /\ lastOp.op \in {"resumeSimulation", "changePlaybackSpeed"}
    /\ simulationInterval.live
    /\ simulationInterval.loop = "restart"
    /\ \E i \in DOMAIN vehicles :
            /\ HasSim(vehicles[i])
            /\ IsMoving(vehicles[i])
            /\ vehicles[i].simulationData.startTime.n < now

\* the statement of C29 as the specification has it: the start time of
\* every moving vehicle is the time at which the loop was created again
C29_StartTimeReset ==
    [][ ( /\ IsAdmin
          /\ \/ lastOp'.op = "resumeSimulation"
             \/ lastOp'.op = "changePlaybackSpeed" /\ isSimulationRunning /\ ~isPaused )
            => \A i \in DOMAIN vehicles' :
                    (HasSim(vehicles'[i]) /\ IsMoving(vehicles'[i]))
                        => vehicles'[i].simulationData.startTime = Num(now')
      ]_vars

\* C30: every tick of a connected producer after which a vehicle is moving
\* with a position publishes exactly one position delta; the delta lists
\* exactly the moving vehicles and its statistics are the counts of the
\* roster.  So it is for the loop of startSimulation and for the loop
\* created again after a change of speed or a resume.
C30_OneDeltaPerTick ==
    [][ (Tick /\ IsAdmin /\ wsConnected
              /\ \E i \in DOMAIN vehicles' : Broadcastable(vehicles'[i]))
            => LET IsDelta(message) ==
                       /\ "type" \in DOMAIN message
                       /\ message.type = "LIVE_POSITION_UPDATE"
                   deltas == SelectSeq(outbox', IsDelta)
                   moving == SelectSeq(vehicles', LAMBDA v : v.status = "moving")
               IN  /\ Len(deltas) = 1
                   /\ Len(deltas[1].data.vehicles) = Len(moving)
                   /\ \A k \in DOMAIN moving :
                        deltas[1].data.vehicles[k].id = moving[k].id
                   /\ deltas[1].data.stats = StatsOf(vehicles')
      ]_vars

\* C31: while the producer is connected, a tick publishes one 'Vehicle
\* Started Moving' notification for each vehicle whose delay it ends and one
\* 'Journey Complete' notification for each vehicle whose journey it
\* completes, whichever loop ticks.
C31_TransitionNotifications ==
    [][ (Tick /\ IsAdmin /\ wsConnected)
            => LET Titled(title) ==
                       SelectSeq(outbox', LAMBDA message :
                                    /\ "title" \in DOMAIN message
                                    /\ message.title = title)
                   started == {i \in DOMAIN vehicles :
                                  /\ HasSim(vehicles[i])
                                  /\ InDelay(vehicles[i])
                                  /\ vehicles'[i].status = "moving"}
                   completed == {i \in DOMAIN vehicles :
                                    /\ vehicles[i].status = "moving"
                                    /\ vehicles'[i].status = "stopped"}
               IN  /\ Len(Titled("Vehicle Started Moving")) = Cardinality(started)
                   /\ Len(Titled("Journey Complete")) = Cardinality(completed)
      ]_vars

\* C32: findPathWaypoints returns no intermediate waypoint when source and
\* destination are less than 5 km apart; otherwise at most 2 waypoints, none
\* of them the source or the destination, each with
\* distance(source, w) + distance(w, destination) < 1.3 * distance(source,
\* destination), in ascending order of distance(source, w), and no candidate
\* that passes that test and was left out is nearer to the source.
C32_PathWaypoints ==
    routePlan.smoothPath # <<>> =>
        LET source == RouteWaypointById(routePlan.source)
            destination == RouteWaypointById(routePlan.destination)
            result == routePlan.pathWaypoints
            Distance(a, b) == calculateDistance(a.lat, a.lng, b.lat, b.lng)
            direct == Distance(source, destination)
            Passes(w) == 10 * (Distance(source, w) + Distance(w, destination)) < 13 * direct
            candidates == {i \in DOMAIN routePlan.waypoints :
                              /\ routePlan.waypoints[i].id \notin {source.id, destination.id}
                              /\ Passes(routePlan.waypoints[i])}
            chosen == {i \in candidates :
                          \E k \in DOMAIN result : result[k].id = routePlan.waypoints[i].id}
        IN  IF direct < 5000 THEN result = <<>>
            ELSE /\ Len(result) <= 2
                 /\ Len(result) = Cardinality(chosen)
                 /\ Cardinality(chosen) = IF Cardinality(candidates) < 2
                                          THEN Cardinality(candidates) ELSE 2
                 /\ \A k \in DOMAIN result :
                        /\ result[k].id \notin {source.id, destination.id}
                        /\ Passes(result[k])
                 /\ \A k \in 1..(Len(result) - 1) :
                        Distance(source, result[k]) <= Distance(source, result[k + 1])
                 /\ \A i \in candidates \ chosen : \A k \in DOMAIN result :
                        Distance(source, result[k]) <= Distance(source, routePlan.waypoints[i])

\* a route of 10 km was composed with two intermediate waypoints chosen
\* among more that pass the test
C32_Witness ==
    /\ routePlan.source = 1
    /\ routePlan.destination = 6
    /\ Len(routePlan.pathWaypoints) = 2
    /\ routePlan.pathWaypoints[1].id = 7
    /\ routePlan.pathWaypoints[2].id = 2

(***************************************************************************)
(* C33: for k intermediate waypoints (0, 1 or 2) calculateOptimalPath      *)
(* returns exactly 5 * (k + 1) + 1 points: every anchor but the last is    *)
(* followed by four interpolated points at the ratios 1/5 .. 4/5 of the    *)
(* way to the next anchor, the first point is the source and the last the  *)
(* destination, and exactly the anchors carry isWaypoint and their         *)
(* waypoint id, in the order source, intermediates, destination.           *)
(***************************************************************************)
C33_SmoothPathShape ==
    routePlan.smoothPath # <<>> =>
        LET path == routePlan.smoothPath
            k == Len(routePlan.pathWaypoints)
            anchors == <<RouteWaypointById(routePlan.source)>>
                       \o routePlan.pathWaypoints
                       \o <<RouteWaypointById(routePlan.destination)>>
            IsAnchor(p, w) ==
                p.lat = w.lat /\ p.lng = w.lng /\ p.isWaypoint /\ p.waypointId = w.id
        IN  /\ k \in 0..2
            /\ Len(path) = 5 * (k + 1) + 1
            /\ IsAnchor(path[1], anchors[1])
            /\ IsAnchor(path[Len(path)], anchors[k + 2])
            /\ \A i \in 1..(k + 1) :
                  /\ IsAnchor(path[5 * (i - 1) + 1], anchors[i])
                  /\ \A j \in 1..4 :
                        LET p == path[5 * (i - 1) + 1 + j]
                        IN  /\ 5 * p.lat = 5 * anchors[i].lat
                                           + (anchors[i + 1].lat - anchors[i].lat) * j
                            /\ 5 * p.lng = 5 * anchors[i].lng
                                           + (anchors[i + 1].lng - anchors[i].lng) * j
                            /\ ~p.isWaypoint
                            /\ p.waypointId = NoWaypoint

\* the route from waypoint 2 to waypoint 6 with its two intermediates composed
C33_Witness ==
    /\ routePlan.source = 2
    /\ routePlan.destination = 6
    /\ Len(routePlan.pathWaypoints) = 2
    /\ Len(routePlan.smoothPath) = 16

(***************************************************************************)
(* SpecSameWaypoint: the routes whose source is their destination.  The    *)
(* form refuses such a route, so a roster gets one from a record only:     *)
(* loadSimulationRecord gives the vehicles of a record whose first two     *)
(* waypoints are one waypoint, or that has one waypoint, a path of one     *)
(* point.  The admin loads a record and runs it at any multiplier.          *)
(***************************************************************************)
\* records of one waypoint, of the same waypoint twice, and of two waypoints
SameWaypointRecords ==
    SinglePointRecords
    \cup SimulationRecords
    \cup { [waypoints |-> << [latitude |-> 100, longitude |-> 110],
                             [latitude |-> 100, longitude |-> 110] >>,
            vehicles |-> << [vehicle_id |-> 1, speed |-> 18, initialDelay |-> initialDelay] >>] :
            initialDelay \in InitialDelays }

LoadSameWaypointRecord ==
    \E record \in SameWaypointRecords :
        /\ ~isSimulationRunning
        /\ loadSimulationRecord(record)

NextSameWaypoint ==
    \/ HandleWaypointSelect
    \/ LoadSameWaypointRecord
    \/ StartSimulation
    \/ ChangePlaybackSpeed
    \/ AdvanceTime
    \/ Tick

SpecSameWaypoint == InitPlace /\ [][NextSameWaypoint]_vars

(***************************************************************************)
(* C34: a route whose source is its destination is a path of exactly one   *)
(* point, and a vehicle on such a path never travels: through the run its  *)
(* position is that point and its distance travelled is 0.  Choosing the   *)
(* source again as the destination in handleWaypointSelect is rejected:    *)
(* the selection stays as it was, so no selected destination is ever the   *)
(* selected source.                                                        *)
(***************************************************************************)
C34_SameWaypoint ==
    /\ [](\A i \in DOMAIN vehicles :
            LET vehicle == vehicles[i]
                point == vehicle.plannedPath[1]
                destination == vehicle.plannedPath[Len(vehicle.plannedPath)]
            IN  /\ point.waypointId = destination.waypointId
                      => Len(vehicle.plannedPath) = 1
                /\ (Len(vehicle.plannedPath) = 1 /\ HasSim(vehicle))
                      => /\ vehicle.simulationData.latitude = Num(point.lat)
                         /\ vehicle.simulationData.longitude = Num(point.lng)
                         /\ vehicle.simulationData.currentLat = Num(point.lat)
                         /\ vehicle.simulationData.currentLng = Num(point.lng)
                         /\ vehicle.simulationData.distanceTravelled = Num(0))
    /\ [](placement.selectedDestinationWaypoint # 0
            => placement.selectedDestinationWaypoint # placement.selectedSourceWaypoint)
    /\ [][(placement.selectionMode = "destination" /\ lastOp'.op = "form")
            => /\ placement'.selectedSourceWaypoint = placement.selectedSourceWaypoint
               /\ placement'.selectionMode = "destination"
               /\ placement'.selectedDestinationWaypoint
                    \in {placement.selectedDestinationWaypoint} \cup
                        (DOMAIN ISLAMABAD_WAYPOINTS \ {placement.selectedSourceWaypoint})]_vars

\* a loaded vehicle whose source is its destination, its run at its end, in
\* a page whose form has its source selected and the source clicked again
C34_Witness ==
    /\ Len(vehicles) = 1
    /\ vehicles[1].currentWaypoint = vehicles[1].targetWaypoint
    /\ Len(vehicles[1].plannedPath) = 1
    /\ vehicles[1].status = "stopped"
    /\ HasSim(vehicles[1])
    /\ NumLt(vehicles[1].simulationData.startTime, Num(now))
    /\ placement.selectionMode = "destination"
    /\ placement.selectedSourceWaypoint = 1
    /\ placement.selectedDestinationWaypoint = 0
    /\ lastOp.op = "form"

C36_RosterCap == IsAdmin => Len(vehicles) <= MaxVehicles

(***************************************************************************)
(* C37: a position delta applied by a viewer changes only the vehicles     *)
(* whose ids it lists: every vehicle of the roster that the delta does not *)
(* mention is in the roster afterwards, unchanged.                         *)
(***************************************************************************)
C37_DeltaFrame ==
    [][\A entries \in PositionLists :
          DeltaStep(entries) =>
              \A i \in DOMAIN vehicles :
                  (\A k \in DOMAIN entries : entries[k].id # vehicles[i].id)
                      => \E j \in DOMAIN vehicles' : vehicles'[j] = vehicles[i]]_vars

(***************************************************************************)
(* C38: once a viewer has handled run-started (or a state snapshot of a    *)
(* running simulation) it is receiving, and every position delta and full  *)
(* vehicle snapshot that arrives while it is receiving is applied to its   *)
(* roster, on the same connection; while it is not receiving (before       *)
(* run-started, after run-stopped) such a message leaves the roster as it  *)
(* is.                                                                     *)
(***************************************************************************)
C38_AppliedWhileReceiving ==
    [][\A message \in Messages :
          (/\ IsViewer
           /\ message.type \in {"VEHICLE_UPDATE", "LIVE_POSITION_UPDATE"}
           /\ handleSimulationUpdate(message))
              => IF isReceivingSimulation
                 THEN lastOp'.writer = "reconciler" /\ lastOp'.type = message.type
                 ELSE vehicles' = vehicles /\ lastOp'.writer = "none"]_vars

(***************************************************************************)
(* SpecBroadcast: a connected producer that runs one vehicle from waypoint *)
(* 1 to waypoint 2, and a viewer on a connection made before the run.      *)
(* Every simulation update the producer publishes is relayed to the        *)
(* viewer, in order, before the producer's next step; the viewer handles   *)
(* it with the handleSimulationUpdate its subscription captured.           *)
(***************************************************************************)
\* JSON.parse(message.body) of a published update
ParsedUpdate(update) ==
    Message(update.type,
            IF "playbackSpeed2" \in DOMAIN update.data
            THEN [update.data EXCEPT !.playbackSpeed2 = Num(@)]
            ELSE update.data)

\* handleSimulationUpdate in the viewer's session
ViewerHandled(v, message) ==
    LET data == message.data
        same == [vehicles |-> v.vehicles, running |-> v.isSimulationRunning,
                 paused |-> v.isPaused, speed2 |-> v.playbackSpeed2,
                 receiving |-> v.isReceivingSimulation, wrote |-> FALSE]
        after ==
            CASE message.type = "SIMULATION_STARTED" -> OnSimulationStarted(same, data)
              [] message.type = "SIMULATION_STOPPED" -> OnSimulationStopped(same, data)
              [] message.type = "SIMULATION_PAUSED" -> [same EXCEPT !.paused = TRUE]
              [] message.type = "SIMULATION_RESUMED" -> [same EXCEPT !.paused = FALSE]
              [] message.type = "VEHICLE_UPDATE" /\ v.handlerReceiving ->
                    [same EXCEPT !.vehicles = data.vehicles]
              [] message.type = "LIVE_POSITION_UPDATE" /\ v.handlerReceiving ->
                    [same EXCEPT !.vehicles =
                                    MergePositionUpdates(v.vehicles, data.vehicles, now)]
              [] OTHER -> same
    IN  [v EXCEPT !.vehicles = after.vehicles,
                  !.isSimulationRunning = after.running,
                  !.isPaused = after.paused,
                  !.playbackSpeed2 = after.speed2,
                  !.isReceivingSimulation = after.receiving]

\* the viewer after the updates, handled in the order published
RECURSIVE ViewerAfter(_, _)
ViewerAfter(v, updates) ==
    IF updates = <<>> THEN v
    ELSE ViewerAfter(ViewerHandled(v, ParsedUpdate(Head(updates))), Tail(updates))

\* the publication of the producer's last step
Publication == <<now, lastOp.op, outbox>>

\* nothing published is still on its way to the viewer
AllDelivered == outbox = <<>> \/ viewer.seen = Publication

\* the broker relays what was published on /app/simulation/update to
\* /topic/simulation, and the viewer's subscription handles it
Deliver ==
    /\ ~AllDelivered
    /\ viewer' =
            [ViewerAfter(viewer,
                         SelectSeq(outbox,
                                   LAMBDA m : m.destination = "/app/simulation/update"))
                EXCEPT !.seen = Publication]
    /\ UNCHANGED <<sessionVars, roleVars, channel, notifications, placement, routePlan>>

\* the viewer's connection is made anew: its subscriptions call the
\* callbacks of the current render
ViewerReconnect ==
    /\ viewer.handlerReceiving # viewer.isReceivingSimulation
    /\ viewer' = [viewer EXCEPT !.handlerReceiving = viewer.isReceivingSimulation]
    /\ UNCHANGED <<sessionVars, roleVars, channel, notifications, placement, routePlan>>

InitBroadcast ==
    /\ InitJourney
    /\ vehicles \in { <<PlacedVehicle(1, 1, 2, speed, initialDelay)>> :
                        speed \in JourneySpeeds, initialDelay \in InitialDelays }

NextBroadcast ==
    \/ AllDelivered /\ AdvanceTime
    \/ AllDelivered /\ StartSimulation
    \/ AllDelivered /\ PauseSimulation
    \/ AllDelivered /\ ResumeSimulation
    \/ AllDelivered /\ StopSimulation
    \/ AllDelivered /\ ChangePlaybackSpeed
    \/ AllDelivered /\ Tick
    \/ Deliver
    \/ ViewerReconnect

SpecBroadcast == InitBroadcast /\ [][NextBroadcast]_vars

(***************************************************************************)
(* C39: once everything the producer published has been handled, a        *)
(* receiving viewer's multiplier and paused flag are those of the producer *)
(* whose run it follows; so after changePlaybackSpeed during a run the     *)
(* viewer's multiplier is the new one.                                     *)
(***************************************************************************)
C39_ViewerFollows ==
    (AllDelivered /\ isSimulationRunning /\ viewer.isReceivingSimulation)
        => /\ viewer.playbackSpeed2 = playbackSpeed2
           /\ viewer.isPaused = isPaused

(***************************************************************************)
(* SpecBroadcastLive: the runs of SpecBroadcast that are neither paused    *)
(* nor stopped, with the scheduling the page relies on: the clock moves,   *)
(* an interval that is due runs its callback, and what was published is    *)
(* delivered.  A reconnection of the viewer is not bound to happen.        *)
(***************************************************************************)
\* the callback of the live interval can run: what ENABLED (AllDelivered /\ Tick)
\* comes to.  A tick sets the next time due, so weak fairness of the ticks
\* is that the callback is not due for ever
TickDue == AllDelivered /\ simulationInterval.live /\ now >= simulationInterval.due

NextBroadcastLive ==
    \/ AllDelivered /\ AdvanceTime
    \/ AllDelivered /\ StartSimulation
    \/ AllDelivered /\ ChangePlaybackSpeed
    \/ AllDelivered /\ Tick
    \/ Deliver
    \/ ViewerReconnect

SpecBroadcastLive ==
    /\ InitBroadcast
    /\ [][NextBroadcastLive]_vars
    /\ WF_vars(AllDelivered /\ AdvanceTime)
    /\ WF_vars(Deliver)
    /\ []<>~TickDue

\* the producer has just published a full snapshot that holds the vehicle
\* at the end of its journey, in a run that is on
CompletionPublished(id) ==
    /\ wsConnected
    /\ isSimulationRunning
    /\ ~isPaused
    /\ ~AllDelivered
    /\ \E k \in DOMAIN outbox :
          /\ outbox[k].destination = "/app/simulation/update"
          /\ outbox[k].type = "VEHICLE_UPDATE"
          /\ \E i \in DOMAIN outbox[k].data.vehicles :
                /\ outbox[k].data.vehicles[i].id = id
                /\ outbox[k].data.vehicles[i].status = "stopped"
                /\ outbox[k].data.vehicles[i].simulationData.progress = Num(1)

\* the viewer's roster holds the vehicle, stopped, with progress 1
ViewerHasCompleted(id) ==
    \E i \in DOMAIN viewer.vehicles :
        /\ viewer.vehicles[i].id = id
        /\ viewer.vehicles[i].status = "stopped"
        /\ HasSim(viewer.vehicles[i])
        /\ viewer.vehicles[i].simulationData.progress = Num(1)

(***************************************************************************)
(* C40: while the producer stays connected and the run is neither paused   *)
(* nor stopped, a vehicle that has completed its journey and is in a full  *)
(* snapshot the producer publishes is eventually in the roster of a        *)
(* receiving viewer with status stopped and progress 1.                    *)
(***************************************************************************)
C40_CompletionReachesViewer ==
    \A id \in VehicleIds :
        [](CompletionPublished(id) /\ viewer.isReceivingSimulation
              => <>ViewerHasCompleted(id))

====
